---- MODULE Spec2Model ----
(***************************************************************************)
(* Self-healing stage orchestrators of the platform-automation repository. *)
(*                                                                         *)
(* The repository holds three variants of the same Automation class:      *)
(*   T  the framework template      (src/unnamed/part_000)                 *)
(*   C  the classroom orchestrator  (src/unnamed/part_001)                 *)
(*   S  the session orchestrator    (src/unnamed/part_002)                 *)
(* Each variant has its own variables (suffix T, C, S) and its own         *)
(* specification (SpecT, SpecC, SpecS); SpecTC runs the template or the    *)
(* classroom orchestrator, and SpecP one check of the presence detector.   *)
(*                                                                         *)
(* Granularity.  Node runs one macrotask at a time, so a handler runs      *)
(* without interleaving until it awaits something that completes in a      *)
(* later macrotask (a driver call, a timer).  A monitor tick is therefore  *)
(* two steps when it invokes a stage action (the synchronous prefix up to  *)
(* the action's first driver call, then the action's completion with the   *)
(* rest of the tick) and one step otherwise.                               *)
(***************************************************************************)
EXTENDS Integers, Sequences, FiniteSets, TLC

(***************************************************************************)
(* Values shared by the three variants                                     *)
(***************************************************************************)
NULL == "null"

\* Readings of the wall clock are 1..MaxClock; the clock stops advancing at
\* MaxClock (later timestamps are indistinguishable, every behaviour remains).
MaxClock == 2

\* enum ExecutionStage, the member every variant has
FAILED == "failed"

\* How an awaited stage action can end: it returns true, it returns false
\* (its own try/catch caught an error, or a check inside it was negative), or
\* its promise rejects and attemptStage's catch runs.
Outcomes == {"ok", "fail", "throw"}

\* RetryConfig as the constructors build it.  A timestamp is a clock reading,
\* which is at least 1; 0 stands for a null timestamp.
NewRetryConfig(max) ==
    [maxRetries |-> max, currentRetries |-> 0, lastAttempt |-> 0,
     lastError |-> NULL, success |-> FALSE, lastSuccessTime |-> 0]

MarkSuccessBroken(rec, t) ==
    [rec EXCEPT !.success = TRUE, !.lastSuccessTime = t, !.lastError = NULL,
                !.currentRetries = 0]

\* attemptStage, "Update status", result true
MarkSuccess(rec, t) ==
    [rec EXCEPT !.success = TRUE, !.lastSuccessTime = t, !.lastError = NULL]

\* attemptStage, "Update status", result false
MarkFailureBroken(rec) == [rec EXCEPT !.success = FALSE]
MarkFailure(rec) ==
    [rec EXCEPT !.success = FALSE, !.currentRetries = @ + 1]

\* attemptStage, catch block.  The message is `Error in ${stageName}: ...`; the
\* record it is stored in already tells the stage.
MarkThrown(rec, stageName) ==
    [rec EXCEPT !.success = FALSE, !.currentRetries = @ + 1,
                !.lastError = "Error in stage"]

\* async-mutex as the code uses it: isLocked() and acquire()/release() of a
\* free mutex (acquire is only ever called right after isLocked() said no).
isLockedBroken(m) == FALSE
isLocked(m) == m

Tick(t) == IF t < MaxClock THEN t + 1 ELSE t

\* The failures counted so far, over all stages
RECURSIVE SumRetries(_, _)
SumRetries(st, names) ==
    IF names = {} THEN 0
    ELSE LET s == CHOOSE x \in names : TRUE
         IN st[s].currentRetries + SumRetries(st, names \ {s})

\* A run is followed until a number of stage failures has been counted (MaxFaultsT,
\* MaxFaultsC, MaxFaultsS); after that the environment lets every action succeed.
mayFail(st, maxFaults) == SumRetries(st, DOMAIN st) < maxFaults

(***************************************************************************)
(* T: the framework template (src/unnamed/part_000)                        *)
(***************************************************************************)
VARIABLES
    currentStageT,        \* this.currentStage
    stageStatusT,         \* this.stageStatus
    systemStatusT,        \* this.systemStatus
    monitoringIntervalT,  \* this.monitoringInterval: NULL, "set", or "cleared" by stopMonitoring
    monitoringMutexT,     \* this.monitoringMutex is locked
    workflowMutexT,       \* this.workflowMutex is locked
    executionCountT,      \* this.executionCount
    bodiesT,              \* monitorExecution bodies past the mutex
    actionT,              \* the stage action a body is suspended in, or NULL
    nowT,                 \* wall clock
    lastEventT            \* history: how the last timer fire ended

varsT == <<currentStageT, stageStatusT, systemStatusT, monitoringIntervalT,
           monitoringMutexT, workflowMutexT, executionCountT, bodiesT,
           actionT, nowT, lastEventT>>

StageNamesT == <<"initialization", "workflowExecution", "healthCheck">>

MaxRetriesInitializationT == 3
MaxRetriesWorkflowExecutionT == 5
MaxRetriesHealthCheckT == 3

\* executionCount is reported, never read by the workflow; it is counted up to
\* MaxExecutionCount.
MaxExecutionCount == 3

MaxFaultsT == 9

InitStageStatusT ==
    [s \in {"initialization", "workflowExecution", "healthCheck"} |->
        NewRetryConfig(CASE s = "initialization" -> MaxRetriesInitializationT
                         [] s = "workflowExecution" -> MaxRetriesWorkflowExecutionT
                         [] OTHER -> MaxRetriesHealthCheckT)]

\* findFailedStage: the first stage, in key order, whose success is false
findFailedStageT(st) ==
    LET unsuccessful == {i \in 1..Len(StageNamesT) : ~st[StageNamesT[i]].success}
    IN IF unsuccessful = {} THEN NULL
       ELSE StageNamesT[CHOOSE i \in unsuccessful : \A j \in unsuccessful : i <= j]

\* resetStageBeforeFailure
resetStageBeforeFailureT(failedStage) ==
    CASE failedStage = "initialization" -> "initial"
      [] failedStage = "workflowExecution" -> "initialized"
      [] failedStage = "healthCheck" -> "workflow_running"
      [] OTHER -> "initial"

\* updateSystemStatus
updateSystemStatusT(cur, st) ==
    IF cur = FAILED
    THEN IF \E s \in DOMAIN st : st[s].currentRetries < st[s].maxRetries /\ ~st[s].success
         THEN "degraded" ELSE "failed"
    ELSE IF cur = "workflow_completed" THEN "healthy"
    ELSE LET totalStages == Cardinality(DOMAIN st)
             completedStages == Cardinality({s \in DOMAIN st : st[s].success})
         IN IF completedStages = totalStages THEN "healthy"
            ELSE IF completedStages > 0 THEN "degraded"
            ELSE "failed"

\* attemptStage, the budget guard
budgetExhaustedBroken(rec) == rec.currentRetries > rec.maxRetries
budgetExhausted(rec) == rec.currentRetries >= rec.maxRetries

\* monitorExecution's switch: the stage attempted at each workflow state
stageForT(cur) ==
    CASE cur = "initial" -> "initialization"
      [] cur = "initialized" -> "workflowExecution"
      [] cur = "workflow_running" -> "healthCheck"
      [] OTHER -> NULL

InitT ==
    /\ currentStageT = "initial"
    /\ stageStatusT = InitStageStatusT
    /\ systemStatusT = "healthy"
    /\ monitoringIntervalT = NULL
    /\ monitoringMutexT = FALSE
    /\ workflowMutexT = FALSE
    /\ executionCountT = 0
    /\ bodiesT = 0
    /\ actionT = NULL
    /\ nowT = 0
    /\ lastEventT = "constructed"

\* run() -> startMonitoring()
startMonitoringT ==
    /\ monitoringIntervalT = NULL
    /\ monitoringIntervalT' = "set"
    /\ UNCHANGED <<currentStageT, stageStatusT, systemStatusT, monitoringMutexT,
                   workflowMutexT, executionCountT, bodiesT, actionT, nowT, lastEventT>>

\* shutdown() -> stopMonitoring(), on SIGINT or SIGTERM
stopMonitoringT ==
    /\ monitoringIntervalT = "set"
    /\ monitoringIntervalT' = "cleared"
    /\ UNCHANGED <<currentStageT, stageStatusT, systemStatusT, monitoringMutexT,
                   workflowMutexT, executionCountT, bodiesT, actionT, nowT, lastEventT>>

\* A timer fire that finds the monitoring mutex locked: monitorExecution returns.
monitorSkipT ==
    /\ monitoringIntervalT = "set"
    /\ isLocked(monitoringMutexT)
    /\ lastEventT' = "skipped"
    /\ UNCHANGED <<currentStageT, stageStatusT, systemStatusT, monitoringIntervalT,
                   monitoringMutexT, workflowMutexT, executionCountT, bodiesT,
                   actionT, nowT>>

finishTickBrokenT(cur, st, wf, b, ev) ==
    /\ currentStageT' = cur
    /\ stageStatusT' = st
    /\ systemStatusT' = updateSystemStatusT(cur, st)
    /\ monitoringMutexT' = IF ev = "throw" THEN monitoringMutexT ELSE FALSE
    /\ workflowMutexT' = wf
    /\ bodiesT' = b
    /\ actionT' = NULL
    /\ lastEventT' = ev

\* The end of a tick: finally { release() } and updateSystemStatus().
\* b is the number of bodies left past the mutex.
finishTickT(cur, st, wf, b, ev) ==
    /\ currentStageT' = cur
    /\ stageStatusT' = st
    /\ systemStatusT' = updateSystemStatusT(cur, st)
    /\ monitoringMutexT' = FALSE
    /\ workflowMutexT' = wf
    /\ bodiesT' = b
    /\ actionT' = NULL
    /\ lastEventT' = ev

\* executeWorkflow, before its workflow body: workflowMutex taken,
\* currentStage = WORKFLOW_RUNNING, executionCount++
enterWorkflowT ==
    /\ workflowMutexT' = TRUE
    /\ currentStageT' = "workflow_running"
    /\ executionCountT' = IF executionCountT < MaxExecutionCount
                          THEN executionCountT + 1 ELSE executionCountT

\* A timer fire that acquires the mutex and runs monitorExecution up to the
\* first suspension: to the end when no stage action is invoked.
monitorExecutionT ==
    /\ monitoringIntervalT = "set"
    /\ ~isLocked(monitoringMutexT)
    /\ nowT' = Tick(nowT)
    /\ UNCHANGED monitoringIntervalT
    /\ LET stage == stageForT(currentStageT) IN
       IF currentStageT = "workflow_completed"
       THEN /\ finishTickT(currentStageT, stageStatusT, workflowMutexT, bodiesT,
                           "completed")
            /\ UNCHANGED executionCountT
       ELSE IF currentStageT = FAILED
       THEN LET failedStage == findFailedStageT(stageStatusT) IN
            /\ IF failedStage # NULL /\ ~budgetExhausted(stageStatusT[failedStage])
               THEN finishTickT(resetStageBeforeFailureT(failedStage), stageStatusT,
                                workflowMutexT, bodiesT, "rewound")
               ELSE finishTickT(FAILED, stageStatusT, workflowMutexT, bodiesT,
                                "remainsFailed")
            /\ UNCHANGED executionCountT
       ELSE IF budgetExhausted(stageStatusT[stage])
       THEN /\ finishTickT(FAILED, stageStatusT, workflowMutexT, bodiesT,
                           "exhausted")
            /\ UNCHANGED executionCountT
       ELSE IF stage = "workflowExecution" /\ isLocked(workflowMutexT)
       THEN \* executeWorkflow: "Workflow already running", returns true
            /\ finishTickT(currentStageT,
                           [stageStatusT EXCEPT ![stage] =
                               MarkSuccess([@ EXCEPT !.lastAttempt = nowT'], nowT')],
                           workflowMutexT, bodiesT, "ok")
            /\ UNCHANGED executionCountT
       ELSE /\ stageStatusT' = [stageStatusT EXCEPT ![stage].lastAttempt = nowT']
            /\ monitoringMutexT' = TRUE
            /\ bodiesT' = bodiesT + 1
            /\ actionT' = stage
            /\ UNCHANGED lastEventT
            /\ IF stage = "workflowExecution"
               THEN enterWorkflowT
               ELSE UNCHANGED <<workflowMutexT, currentStageT, executionCountT>>
            /\ UNCHANGED systemStatusT

\* A timer fire whose dispatch raises outside attemptStage's own try block (a
\* statement of the try block at lines 172-211 throws before any stage is
\* attempted): the catch sets systemStatus = "degraded", finally releases the
\* mutex, and updateSystemStatus() runs after the try statement.
monitorEscapesT ==
    /\ monitoringIntervalT = "set"
    /\ ~isLocked(monitoringMutexT)
    /\ finishTickT(currentStageT, stageStatusT, workflowMutexT, bodiesT, "escaped")
    /\ UNCHANGED <<monitoringIntervalT, executionCountT, nowT>>

\* The stage a successful action leaves the workflow in
nextStageT(stage, cur) ==
    CASE stage = "initialization" -> "initialized"
      [] stage = "workflowExecution" -> "workflow_completed"
      [] OTHER -> cur

\* The awaited action ends; attemptStage updates the record; the tick ends.
actionReturnT(outcome) ==
    /\ actionT # NULL
    /\ outcome # "ok" => mayFail(stageStatusT, MaxFaultsT)
    /\ LET stage == actionT
           rec == stageStatusT[stage]
           wf == IF stage = "workflowExecution" THEN FALSE ELSE workflowMutexT
       IN CASE outcome = "ok" ->
                 finishTickT(nextStageT(stage, currentStageT),
                     [stageStatusT EXCEPT ![stage] = MarkSuccess(rec, nowT)],
                     wf, bodiesT - 1, "ok")
            [] outcome = "fail" ->
                 finishTickT(currentStageT,
                     [stageStatusT EXCEPT ![stage] = MarkFailure(rec)],
                     wf, bodiesT - 1, "fail")
            [] OTHER ->
                 finishTickT(currentStageT,
                     [stageStatusT EXCEPT ![stage] = MarkThrown(rec, stage)],
                     wf, bodiesT - 1, "throw")
    /\ UNCHANGED <<monitoringIntervalT, executionCountT, nowT>>

(***************************************************************************)
(* The presence detector of the classroom orchestrator                     *)
(* (checkIfClassIsStillActive, src/unnamed/part_001)                       *)
(***************************************************************************)
\* userDetectionFaultTolerance = 1 / 3
FaultToleranceNum == 1
FaultToleranceDen == 3

\* What the driver answers during one check.  A detection method is positive,
\* negative, or raises.
MethodOutcomes == {"pos", "neg", "raise"}

DetectorInputs ==
    [lectures : BOOLEAN,                 \* this.lectures is a non-empty list
     page : BOOLEAN,                     \* this.pages[0] exists
     iframeWait : {"ok", "raise"},       \* page.waitForSelector("iframe#frame")
     iframe : BOOLEAN,                   \* page.frames().find(...) found it
     content : MethodOutcomes,           \* iframe.content() has the username or "(You)"
     toggle1 : BOOLEAN,                  \* first users-toggle selector found
     toggle2 : BOOLEAN,                  \* second users-toggle selector found
     click : {"ok", "raise"},            \* usersButton.click() that opens the panel
     grid : {"found", "null", "raise"},  \* iframe.waitForSelector('div[aria-label="grid"]')
     m1 : MethodOutcomes,                \* method 1: aria-label match
     m2 : MethodOutcomes,                \* method 2: userNameMain text scan
     m3 : MethodOutcomes,                \* method 3: grid text scan
     close : {"ok", "raise"}]            \* usersButton.click() that closes the panel

\* The result of a check that ends before the panel methods run
EarlyVerdict(v, lookups, clicks, joinErr) ==
    [verdict |-> v, toggleLookups |-> lookups, clicks |-> clicks,
     methodsRun |-> 0, successfulMethods |-> 0, totalMethods |-> 0,
     joinClassError |-> joinErr]

\* "let totalMethods = 0; // Increment this only for methods that run without
\* error": totalMethods++ is the first statement of each method's try block.
countedInTotal(m) == TRUE

\* successRate >= this.userDetectionFaultTolerance
meetsToleranceBroken(successfulMethods, totalMethods) ==
    successfulMethods * FaultToleranceDen > FaultToleranceNum * totalMethods
meetsTolerance(successfulMethods, totalMethods) ==
    successfulMethods * FaultToleranceDen >= FaultToleranceNum * totalMethods

panelVerdictBroken(d, lookups) ==
    LET ms == <<d.m1, d.m2, d.m3>>
        successfulMethods == Cardinality({i \in 1..3 : ms[i] = "pos"})
        totalMethods == Cardinality({i \in 1..3 : countedInTotal(ms[i])})
        closed == IF d.close = "ok" THEN 1 ELSE 0
    IN [verdict |-> IF totalMethods > 0 /\ d.close = "ok"
                    THEN meetsTolerance(successfulMethods, totalMethods)
                    ELSE FALSE,
        toggleLookups |-> lookups, clicks |-> 1 + closed, methodsRun |-> 3,
        successfulMethods |-> successfulMethods, totalMethods |-> totalMethods,
        joinClassError |-> FALSE]

\* Lines 547-667: the three methods, the cleanup click and the verdict
panelVerdict(d, lookups) ==
    LET ms == <<d.m1, d.m2, d.m3>>
        successfulMethods == Cardinality({i \in 1..3 : ms[i] = "pos"})
        totalMethods == Cardinality({i \in 1..3 : countedInTotal(ms[i])})
        closed == IF d.close = "ok" THEN 1 ELSE 0
    IN [verdict |-> IF totalMethods > 0
                    THEN meetsTolerance(successfulMethods, totalMethods)
                    ELSE FALSE,
        toggleLookups |-> lookups, clicks |-> 1 + closed, methodsRun |-> 3,
        successfulMethods |-> successfulMethods, totalMethods |-> totalMethods,
        joinClassError |-> FALSE]

checkIfClassIsStillActiveNoShortCut(d) ==
    IF ~d.lectures THEN EarlyVerdict(FALSE, 0, 0, FALSE)
    ELSE IF ~d.page THEN EarlyVerdict(FALSE, 0, 0, FALSE)
    ELSE IF d.iframeWait = "raise" THEN EarlyVerdict(FALSE, 0, 0, FALSE)
    ELSE IF ~d.iframe THEN EarlyVerdict(FALSE, 0, 0, TRUE)
    ELSE LET lookups == IF d.toggle1 THEN 1 ELSE 2 IN
         IF ~d.toggle1 /\ ~d.toggle2 THEN EarlyVerdict(TRUE, lookups, 0, FALSE)
         ELSE IF d.click = "raise" THEN EarlyVerdict(TRUE, lookups, 0, FALSE)
         ELSE IF d.grid # "found" THEN EarlyVerdict(TRUE, lookups, 1, FALSE)
         ELSE panelVerdict(d, lookups)
checkIfClassIsStillActiveFailClosed(d) ==
    IF ~d.lectures THEN EarlyVerdict(FALSE, 0, 0, FALSE)
    ELSE IF ~d.page THEN EarlyVerdict(FALSE, 0, 0, FALSE)
    ELSE IF d.iframeWait = "raise" THEN EarlyVerdict(FALSE, 0, 0, FALSE)
    ELSE IF ~d.iframe THEN EarlyVerdict(FALSE, 0, 0, TRUE)
    ELSE IF d.content = "pos" THEN EarlyVerdict(TRUE, 0, 0, FALSE)
    ELSE LET lookups == IF d.toggle1 THEN 1 ELSE 2 IN
         IF ~d.toggle1 /\ ~d.toggle2 THEN EarlyVerdict(FALSE, lookups, 0, FALSE)
         ELSE IF d.click = "raise" THEN EarlyVerdict(TRUE, lookups, 0, FALSE)
         ELSE IF d.grid # "found" THEN EarlyVerdict(TRUE, lookups, 1, FALSE)
         ELSE panelVerdict(d, lookups)

checkIfClassIsStillActiveOuterCatch(d) ==
    IF ~d.lectures THEN EarlyVerdict(FALSE, 0, 0, FALSE)
    ELSE IF ~d.page THEN EarlyVerdict(FALSE, 0, 0, FALSE)
    ELSE IF d.iframeWait = "raise" THEN EarlyVerdict(FALSE, 0, 0, FALSE)
    ELSE IF ~d.iframe THEN EarlyVerdict(FALSE, 0, 0, TRUE)
    ELSE IF d.content = "pos" THEN EarlyVerdict(TRUE, 0, 0, FALSE)
    ELSE LET lookups == IF d.toggle1 THEN 1 ELSE 2 IN
         IF ~d.toggle1 /\ ~d.toggle2 THEN EarlyVerdict(TRUE, lookups, 0, FALSE)
         ELSE IF d.click = "raise" THEN EarlyVerdict(FALSE, lookups, 0, FALSE)
         ELSE IF d.grid = "raise" THEN EarlyVerdict(FALSE, lookups, 1, FALSE)
         ELSE IF d.grid # "found" THEN EarlyVerdict(TRUE, lookups, 1, FALSE)
         ELSE panelVerdict(d, lookups)

\* checkIfClassIsStillActive
checkIfClassIsStillActive(d) ==
    IF ~d.lectures THEN EarlyVerdict(FALSE, 0, 0, FALSE)
    ELSE IF ~d.page THEN EarlyVerdict(FALSE, 0, 0, FALSE)
    ELSE IF d.iframeWait = "raise" THEN EarlyVerdict(FALSE, 0, 0, FALSE)
    ELSE IF ~d.iframe THEN EarlyVerdict(FALSE, 0, 0, TRUE)
    ELSE IF d.content = "pos" THEN EarlyVerdict(TRUE, 0, 0, FALSE)
    ELSE LET lookups == IF d.toggle1 THEN 1 ELSE 2 IN
         IF ~d.toggle1 /\ ~d.toggle2 THEN EarlyVerdict(TRUE, lookups, 0, FALSE)
         ELSE IF d.click = "raise" THEN EarlyVerdict(TRUE, lookups, 0, FALSE)
         ELSE IF d.grid # "found" THEN EarlyVerdict(TRUE, lookups, 1, FALSE)
         ELSE panelVerdict(d, lookups)

(***************************************************************************)
(* C: the classroom orchestrator (src/unnamed/part_001)                    *)
(***************************************************************************)
VARIABLES
    currentStageC,        \* this.currentStage
    stageStatusC,         \* this.stageStatus
    systemStatusC,        \* this.systemStatus
    monitoringIntervalC,  \* this.monitoringInterval: NULL or "set"
    monitoringMutexC,     \* this.monitoringMutex is locked
    browserC,             \* this.browser: NULL, "connected" or "disconnected"
    pagesC,               \* this.pages is set
    lecturesC,            \* this.lectures: NULL, "empty" or "some"
    activeClassLinkC,     \* this.activeClassLink is set
    bodiesC,              \* monitorExecution bodies past the mutex
    actionC,              \* what a body is suspended in, or NULL
    nowC,                 \* wall clock
    lastEventC            \* history: how the last timer fire ended

varsC == <<currentStageC, stageStatusC, systemStatusC, monitoringIntervalC,
           monitoringMutexC, browserC, pagesC, lecturesC, activeClassLinkC,
           bodiesC, actionC, nowC, lastEventC>>

\* findFailedStage's list
StageNamesC == <<"launchBrowser", "userLogin", "verifyUserLogin", "getTodaysClass",
                 "getClassLinkFromLectures", "joinClass">>

MaxRetriesLaunchBrowserC == 5
MaxRetriesUserLoginC == 3
MaxRetriesVerifyUserLoginC == 3
MaxRetriesGetTodaysClassC == 3
MaxRetriesGetClassLinkFromLecturesC == 2
MaxRetriesJoinClassC == 4

MaxFaultsC == 4

InitStageStatusC ==
    [s \in {StageNamesC[i] : i \in 1..Len(StageNamesC)} |->
        NewRetryConfig(CASE s = "launchBrowser" -> MaxRetriesLaunchBrowserC
                         [] s = "userLogin" -> MaxRetriesUserLoginC
                         [] s = "verifyUserLogin" -> MaxRetriesVerifyUserLoginC
                         [] s = "getTodaysClass" -> MaxRetriesGetTodaysClassC
                         [] s = "getClassLinkFromLectures" ->
                                MaxRetriesGetClassLinkFromLecturesC
                         [] OTHER -> MaxRetriesJoinClassC)]

\* findFailedStage
findFailedStageC(st) ==
    LET unsuccessful == {i \in 1..Len(StageNamesC) : ~st[StageNamesC[i]].success}
    IN IF unsuccessful = {} THEN NULL
       ELSE StageNamesC[CHOOSE i \in unsuccessful : \A j \in unsuccessful : i <= j]

setStageBeforeFailedStageBrokenC(failedStage) ==
    CASE failedStage = "launchBrowser" -> "initial"
      [] failedStage = "userLogin" -> "browser_launched"
      [] failedStage = "verifyUserLogin" -> "user_logged_in"
      [] failedStage = "getTodaysClass" -> "login_verified"
      [] failedStage = "getClassLinkFromLectures" -> "got_today_classes"
      [] OTHER -> "initial"

\* setStageBeforeFailedStage
setStageBeforeFailedStageC(failedStage) ==
    CASE failedStage = "launchBrowser" -> "initial"
      [] failedStage = "userLogin" -> "browser_launched"
      [] failedStage = "verifyUserLogin" -> "user_logged_in"
      [] failedStage = "getTodaysClass" -> "login_verified"
      [] failedStage \in {"getClassLinkFromLectures", "joinClass"} -> "got_today_classes"
      [] OTHER -> "initial"

\* updateSystemStatus
updateSystemStatusC(cur, st) ==
    IF cur = FAILED
    THEN IF \E s \in DOMAIN st : st[s].currentRetries < st[s].maxRetries /\ ~st[s].success
         THEN "degraded" ELSE "failed"
    ELSE IF cur = "class_joined" THEN "healthy"
    ELSE LET totalStages == Cardinality(DOMAIN st)
             completedStages == Cardinality({s \in DOMAIN st : st[s].success})
         IN IF completedStages = totalStages THEN "healthy"
            ELSE IF completedStages > 0 THEN "degraded"
            ELSE "failed"

\* handleError: the stage record part (the screenshots are not modelled)
handleErrorC(st, message, functionName) ==
    IF functionName \in DOMAIN st
    THEN [st EXCEPT ![functionName].lastError = message,
                    ![functionName].success = FALSE]
    ELSE st

\* monitorExecution's switch: the stage attempted at each workflow state
stageForC(cur) ==
    CASE cur = "initial" -> "launchBrowser"
      [] cur = "browser_launched" -> "userLogin"
      [] cur = "user_logged_in" -> "verifyUserLogin"
      [] cur = "login_verified" -> "getTodaysClass"
      [] cur = "got_today_classes" -> "joinClass"
      [] OTHER -> NULL

\* The stage a successful action leaves the workflow in
nextStageC(stage) ==
    CASE stage = "launchBrowser" -> "browser_launched"
      [] stage = "userLogin" -> "user_logged_in"
      [] stage = "verifyUserLogin" -> "login_verified"
      [] stage = "getTodaysClass" -> "got_today_classes"
      [] OTHER -> "class_joined"

\* The message each action hands to handleError from its catch block
errorMessageC(stage) ==
    CASE stage = "launchBrowser" -> "Error launching browser"
      [] stage = "userLogin" -> "Error during user login"
      [] stage = "verifyUserLogin" -> "Error verifying user login"
      [] stage = "getTodaysClass" -> "Error getting today's class"
      [] OTHER -> "Error joining class"

InitC ==
    /\ currentStageC = "initial"
    /\ stageStatusC = InitStageStatusC
    /\ systemStatusC = "healthy"
    /\ monitoringIntervalC = NULL
    /\ monitoringMutexC = FALSE
    /\ browserC = NULL
    /\ pagesC = FALSE
    /\ lecturesC = NULL
    /\ activeClassLinkC = FALSE
    /\ bodiesC = 0
    /\ actionC = NULL
    /\ nowC = 0
    /\ lastEventC = "constructed"

\* initiateAutomationSequence -> startMonitoring().  SIGINT stops the timer,
\* closes the browser and exits the process: the behaviour ends there.
startMonitoringC ==
    /\ monitoringIntervalC = NULL
    /\ monitoringIntervalC' = "set"
    /\ UNCHANGED <<currentStageC, stageStatusC, systemStatusC, monitoringMutexC,
                   browserC, pagesC, lecturesC, activeClassLinkC, bodiesC,
                   actionC, nowC, lastEventC>>

\* The browser process dies or its connection drops: browser.connected turns false.
browserDisconnectC ==
    /\ browserC = "connected"
    /\ browserC' = "disconnected"
    /\ UNCHANGED <<lastEventC, currentStageC, stageStatusC, systemStatusC, monitoringIntervalC,
                   monitoringMutexC, pagesC, lecturesC, activeClassLinkC, bodiesC,
                   actionC, nowC>>

\* A timer fire that finds the monitoring mutex locked: monitorExecution returns.
monitorSkipC ==
    /\ monitoringIntervalC = "set"
    /\ isLocked(monitoringMutexC)
    /\ lastEventC' = "skipped"
    /\ UNCHANGED <<currentStageC, stageStatusC, systemStatusC, monitoringIntervalC,
                   monitoringMutexC, browserC, pagesC, lecturesC, activeClassLinkC,
                   bodiesC, actionC, nowC>>

\* The end of a tick: finally { release() } and updateSystemStatus().
finishTickC(cur, st, b, ev) ==
    /\ currentStageC' = cur
    /\ stageStatusC' = st
    /\ systemStatusC' = updateSystemStatusC(cur, st)
    /\ monitoringMutexC' = FALSE
    /\ bodiesC' = b
    /\ actionC' = NULL
    /\ lastEventC' = ev

\* The tick suspends in an awaited call; status is what the connectivity check
\* left (updateSystemStatus runs there when the connection was lost).
suspendTickC(cur, st, lost, what) ==
    /\ currentStageC' = cur
    /\ stageStatusC' = st
    /\ systemStatusC' = IF lost THEN updateSystemStatusC(cur, st) ELSE systemStatusC
    /\ monitoringMutexC' = TRUE
    /\ bodiesC' = bodiesC + 1
    /\ actionC' = what
    /\ UNCHANGED lastEventC

\* attemptStage up to the action's first driver call, or to its end when the
\* retry budget is used up.
attemptStageC(stage, cur, st, lost) ==
    IF budgetExhausted(st[stage])
    THEN finishTickC(FAILED, st, bodiesC, "exhausted")
    ELSE suspendTickC(cur, [st EXCEPT ![stage].lastAttempt = nowC'], lost, stage)

\* getClassLinkFromLectures: an active lecture is found ("link"), none is
\* ("none"), or an error reaches its catch block ("throw").
LinkOutcomes == {"link", "none", "throw"}

getClassLinkFromLecturesC(st, g, t) ==
    CASE g = "link" ->
            [st EXCEPT !["getClassLinkFromLectures"].success = TRUE,
                       !["getClassLinkFromLectures"].lastSuccessTime = t]
      [] g = "none" ->
            handleErrorC(st, "No active lecture found", "getClassLinkFromLectures")
      [] OTHER ->
            [handleErrorC(st, "Error getting class link", "getClassLinkFromLectures")
                EXCEPT !["getClassLinkFromLectures"].currentRetries = @ + 1]

\* A timer fire that acquires the mutex and runs monitorExecution up to the
\* first suspension: to the end when nothing is awaited.
monitorExecutionC(g) ==
    /\ monitoringIntervalC = "set"
    /\ ~isLocked(monitoringMutexC)
    /\ nowC' = Tick(nowC)
    /\ UNCHANGED <<monitoringIntervalC, browserC, pagesC, lecturesC>>
    /\ LET lost == browserC # NULL /\ browserC # "connected"
                   /\ currentStageC # "initial"
           cur == IF lost THEN "initial" ELSE currentStageC
           st == IF lost THEN [stageStatusC EXCEPT !["launchBrowser"].success = FALSE]
                 ELSE stageStatusC
       IN
       IF cur \in {"initial", "browser_launched", "user_logged_in", "login_verified"}
       THEN /\ IF ~st[stageForC(cur)].success
               THEN attemptStageC(stageForC(cur), cur, st, lost)
               ELSE finishTickC(cur, st, bodiesC, "idle")
            /\ UNCHANGED activeClassLinkC
       ELSE IF cur = "got_today_classes"
       THEN IF lecturesC = "some"
            THEN LET st1 == getClassLinkFromLecturesC(st, g, nowC') IN
                 /\ g = "throw" => mayFail(st, MaxFaultsC)
                 /\ IF g = "link"
                    THEN /\ activeClassLinkC' = TRUE
                         /\ attemptStageC("joinClass", cur, st1, lost)
                    ELSE /\ UNCHANGED activeClassLinkC
                         /\ finishTickC(cur, st1, bodiesC,
                                IF g = "none" THEN "noActiveClass" ELSE "linkThrew")
            ELSE /\ UNCHANGED activeClassLinkC
                 /\ finishTickC(cur, st, bodiesC, "idle")
       ELSE IF cur = "class_joined"
       THEN /\ UNCHANGED activeClassLinkC
            /\ IF lecturesC = "some"
               THEN suspendTickC(cur, st, lost, "checkIfClassIsStillActive")
               ELSE finishTickC(cur, st, bodiesC, "idle")
       ELSE \* ExecutionStage.FAILED
            LET failedStage == findFailedStageC(st) IN
            /\ UNCHANGED activeClassLinkC
            /\ IF failedStage # NULL /\ ~budgetExhausted(st[failedStage])
               THEN finishTickC(setStageBeforeFailedStageC(failedStage), st, bodiesC,
                                "rewound")
               ELSE finishTickC(FAILED, st, bodiesC, "remainsFailed")

\* An awaited stage action ends; attemptStage updates the record; the tick ends.
\* b is this.browser afterwards and l this.lectures, where the action assigns them.
stageReturnC(outcome, b, l) ==
    /\ actionC \in DOMAIN stageStatusC
    /\ outcome # "ok" => mayFail(stageStatusC, MaxFaultsC)
    /\ LET stage == actionC
           rec == stageStatusC[stage]
           failed == handleErrorC(stageStatusC, errorMessageC(stage), stage)
       IN
       /\ IF stage = "launchBrowser"
          THEN /\ browserC' = b
               /\ IF outcome = "ok" THEN b = "connected" /\ pagesC' = TRUE
                  ELSE b \in {browserC, "connected"} /\ UNCHANGED pagesC
          ELSE /\ UNCHANGED <<browserC, pagesC>>
               /\ b = browserC
               /\ outcome = "ok" => browserC = "connected" /\ pagesC
       /\ IF stage = "getTodaysClass" /\ outcome = "ok"
          THEN l \in {"empty", "some"} /\ lecturesC' = l
          ELSE l = lecturesC /\ UNCHANGED lecturesC
       /\ CASE outcome = "ok" ->
                 finishTickC(nextStageC(stage),
                     [stageStatusC EXCEPT ![stage] = MarkSuccess(rec, nowC)],
                     bodiesC - 1, "ok")
            [] outcome = "fail" ->
                 finishTickC(currentStageC,
                     [failed EXCEPT ![stage] = MarkFailure(@)], bodiesC - 1, "fail")
            [] OTHER ->
                 finishTickC(currentStageC,
                     [failed EXCEPT ![stage] = MarkThrown(@, stage)],
                     bodiesC - 1, "throw")
    /\ UNCHANGED <<monitoringIntervalC, activeClassLinkC, nowC>>

\* What a presence check can answer, by whether this.pages is set and whether
\* the browser is connected (every driver call of a dead browser raises): the
\* verdict, and whether handleError(..., "joinClass") ran.
PresenceAnswers ==
    [page \in BOOLEAN, connected \in BOOLEAN |->
        {[verdict |-> checkIfClassIsStillActive(d).verdict,
          joinClassError |-> checkIfClassIsStillActive(d).joinClassError] :
            d \in {x \in DetectorInputs :
                      /\ x.lectures
                      /\ x.page = page
                      /\ ~connected => x.iframeWait = "raise"}}]

presenceReturnCountsRetryC(r) ==
    /\ actionC = "checkIfClassIsStillActive"
    /\ r \in PresenceAnswers[pagesC, browserC = "connected"]
    /\ LET st == IF r.joinClassError
                 THEN handleErrorC(stageStatusC, "Could not access class iframe!",
                                   "joinClass")
                 ELSE stageStatusC
       IN IF r.verdict
          THEN finishTickC(currentStageC, st, bodiesC - 1, "present")
          ELSE finishTickC("got_today_classes",
                           [st EXCEPT !["joinClass"] = MarkFailure(@)],
                           bodiesC - 1, "absent")
    /\ UNCHANGED <<monitoringIntervalC, browserC, pagesC, lecturesC,
                   activeClassLinkC, nowC>>

\* The awaited presence check ends; the CLASS_JOINED case and the tick end.
presenceReturnC(r) ==
    /\ actionC = "checkIfClassIsStillActive"
    /\ r \in PresenceAnswers[pagesC, browserC = "connected"]
    /\ LET st == IF r.joinClassError
                 THEN handleErrorC(stageStatusC, "Could not access class iframe!",
                                   "joinClass")
                 ELSE stageStatusC
       IN IF r.verdict
          THEN finishTickC(currentStageC, st, bodiesC - 1, "present")
          ELSE finishTickC("got_today_classes",
                           [st EXCEPT !["joinClass"].success = FALSE],
                           bodiesC - 1, "absent")
    /\ UNCHANGED <<monitoringIntervalC, browserC, pagesC, lecturesC,
                   activeClassLinkC, nowC>>

(***************************************************************************)
(* S: the session orchestrator (src/unnamed/part_002)                      *)
(***************************************************************************)
VARIABLES
    currentStageS,        \* this.currentStage
    stageStatusS,         \* this.stageStatus
    systemStatusS,        \* this.systemStatus
    monitoringIntervalS,  \* this.monitoringInterval: NULL, "set", or "cleared" by stopMonitoring
    monitoringMutexS,     \* this.monitoringMutex is locked
    workflowMutexS,       \* this.workflowMutex is locked
    executionCountS,      \* this.executionCount
    browserS,             \* this.browser: NULL, "connected" or "disconnected"
    pageS,                \* this.page: NULL or "open"
    looksLikeClassS,      \* the page's URL contains "class" or the target URL
    bodiesS,              \* monitorExecution bodies past the mutex
    actionS,              \* the stage action a body is suspended in, or NULL
    nowS,                 \* wall clock
    lastEventS,           \* history: how the last timer fire ended
    exitedS               \* process.exit(0) has run

varsS == <<currentStageS, stageStatusS, systemStatusS, monitoringIntervalS,
           monitoringMutexS, workflowMutexS, executionCountS, browserS, pageS,
           looksLikeClassS, bodiesS, actionS, nowS, lastEventS, exitedS>>

StageNamesS == <<"initialization", "openTarget", "login", "joinClass", "healthCheck">>

MaxRetriesInitializationS == 3
MaxRetriesOpenTargetS == 5
MaxRetriesLoginS == 5
MaxRetriesJoinClassS == 5
MaxRetriesHealthCheckS == 3

MaxFaultsS == 5

InitStageStatusS ==
    [s \in {"initialization", "openTarget", "login", "joinClass", "healthCheck"} |->
        NewRetryConfig(CASE s = "initialization" -> MaxRetriesInitializationS
                         [] s = "openTarget" -> MaxRetriesOpenTargetS
                         [] s = "login" -> MaxRetriesLoginS
                         [] s = "joinClass" -> MaxRetriesJoinClassS
                         [] OTHER -> MaxRetriesHealthCheckS)]

\* findFailedStage: the first stage, in key order, whose success is false
findFailedStageS(st) ==
    LET unsuccessful == {i \in 1..Len(StageNamesS) : ~st[StageNamesS[i]].success}
    IN IF unsuccessful = {} THEN NULL
       ELSE StageNamesS[CHOOSE i \in unsuccessful : \A j \in unsuccessful : i <= j]

\* resetStageBeforeFailure
resetStageBeforeFailureS(failedStage) ==
    CASE failedStage = "initialization" -> "initial"
      [] failedStage = "openTarget" -> "initialized"
      [] failedStage = "login" -> "opened_target_url"
      [] failedStage = "joinClass" -> "logged_in"
      [] failedStage = "healthCheck" -> "joined_class"
      [] OTHER -> "initial"

\* updateSystemStatus
updateSystemStatusBrokenS(cur, st) ==
    IF cur = FAILED THEN "failed" ELSE "healthy"
updateSystemStatusS(cur, st) ==
    IF cur = FAILED
    THEN IF \E s \in DOMAIN st : st[s].currentRetries < st[s].maxRetries /\ ~st[s].success
         THEN "degraded" ELSE "failed"
    ELSE IF cur = "joined_class" THEN "healthy"
    ELSE LET totalStages == Cardinality(DOMAIN st)
             completedStages == Cardinality({s \in DOMAIN st : st[s].success})
         IN IF completedStages = totalStages THEN "healthy"
            ELSE IF completedStages > 0 THEN "degraded"
            ELSE "failed"

\* monitorExecution's switch: the stage attempted at each workflow state
stageForS(cur) ==
    CASE cur = "initial" -> "initialization"
      [] cur = "initialized" -> "openTarget"
      [] cur = "opened_target_url" -> "login"
      [] cur = "logged_in" -> "joinClass"
      [] cur = "joined_class" -> "healthCheck"
      [] OTHER -> NULL

\* The stage a successful action leaves the workflow in
nextStageBrokenS(stage, cur) ==
    CASE stage = "initialization" -> "initialized"
      [] stage = "openTarget" -> "opened_target_url"
      [] stage = "login" -> "logged_in"
      [] OTHER -> cur
nextStageS(stage, cur) ==
    CASE stage = "initialization" -> "initialized"
      [] stage = "openTarget" -> "opened_target_url"
      [] stage = "login" -> "logged_in"
      [] stage = "joinClass" -> "joined_class"
      [] OTHER -> cur

\* performHealthCheck: it awaits nothing, so it runs inside the tick's step.
\* It returns the result and what it leaves in currentStage and stageStatus.
performHealthCheckBrokenS(cur, st, browser, page, looksLikeClass) ==
    IF browser = "connected" /\ page = "open" /\ cur = "joined_class" /\ looksLikeClass
    THEN [result |-> TRUE, cur |-> cur, st |-> st]
    ELSE [result |-> FALSE, cur |-> "logged_in",
          st |-> [st EXCEPT !["joinClass"].success = FALSE]]
performHealthCheckNoResetS(cur, st, browser, page, looksLikeClass) ==
    IF browser = "connected" /\ page = "open" /\ cur = "joined_class" /\ looksLikeClass
    THEN [result |-> TRUE, cur |-> cur, st |-> st]
    ELSE IF browser = "connected" /\ page = "open" /\ cur = "joined_class"
    THEN [result |-> FALSE, cur |-> cur,
          st |-> [st EXCEPT !["joinClass"] =
                     [@ EXCEPT !.success = FALSE, !.currentRetries = @ + 1,
                               !.lastError = "Not on class page"]]]
    ELSE [result |-> FALSE, cur |-> cur, st |-> st]
performHealthCheckS(cur, st, browser, page, looksLikeClass) ==
    IF browser # "connected" THEN [result |-> FALSE, cur |-> cur, st |-> st]
    ELSE IF page # "open" THEN [result |-> FALSE, cur |-> cur, st |-> st]
    ELSE IF cur # "joined_class" \/ ~looksLikeClass
    THEN IF cur = "joined_class" /\ ~looksLikeClass
         THEN [result |-> FALSE, cur |-> "logged_in",
               st |-> [st EXCEPT !["joinClass"] =
                          [@ EXCEPT !.success = FALSE, !.currentRetries = @ + 1,
                                    !.lastError = "Not on class page"]]]
         ELSE [result |-> FALSE, cur |-> cur, st |-> st]
    ELSE [result |-> TRUE, cur |-> cur, st |-> st]

InitS ==
    /\ currentStageS = "initial"
    /\ stageStatusS = InitStageStatusS
    /\ systemStatusS = "healthy"
    /\ monitoringIntervalS = NULL
    /\ monitoringMutexS = FALSE
    /\ workflowMutexS = FALSE
    /\ executionCountS = 0
    /\ browserS = NULL
    /\ pageS = NULL
    /\ looksLikeClassS = FALSE
    /\ bodiesS = 0
    /\ actionS = NULL
    /\ nowS = 0
    /\ lastEventS = "constructed"
    /\ exitedS = FALSE

\* joinClassroom is a public method guarded by its own mutex.  To exercise that
\* guard the orchestrator is taken at LOGGED_IN, its first three stages done,
\* with the workflow mutex free or held by a join that some other caller has
\* in flight; the retries joinClass has used and the execution count are drawn.
InitHeldS ==
    /\ currentStageS = "logged_in"
    /\ \E r \in 0..(MaxRetriesJoinClassS - 1) :
          stageStatusS =
             [s \in DOMAIN InitStageStatusS |->
                 IF s \in {"initialization", "openTarget", "login"}
                 THEN MarkSuccess([InitStageStatusS[s] EXCEPT !.lastAttempt = 1], 1)
                 ELSE IF s = "joinClass" /\ r > 0
                 THEN [InitStageStatusS[s] EXCEPT !.currentRetries = r,
                                                   !.lastAttempt = 1]
                 ELSE InitStageStatusS[s]]
    /\ systemStatusS = "degraded"
    /\ monitoringIntervalS = NULL
    /\ monitoringMutexS = FALSE
    /\ workflowMutexS \in BOOLEAN
    /\ executionCountS \in 0..1
    /\ browserS = "connected"
    /\ pageS = "open"
    /\ looksLikeClassS = FALSE
    /\ bodiesS = 0
    /\ actionS = NULL
    /\ nowS = 1
    /\ lastEventS = "ok"
    /\ exitedS = FALSE

\* run() -> startMonitoring()
startMonitoringS ==
    /\ monitoringIntervalS = NULL
    /\ monitoringIntervalS' = "set"
    /\ UNCHANGED <<currentStageS, stageStatusS, systemStatusS, monitoringMutexS,
                   workflowMutexS, executionCountS, browserS, pageS,
                   looksLikeClassS, bodiesS, actionS, nowS, lastEventS>>

shutdownBrokenS ==
    /\ monitoringIntervalS = "set"
    /\ monitoringIntervalS' = "cleared"
    /\ browserS' = IF browserS = "connected" THEN "disconnected" ELSE browserS
    /\ currentStageS' = FAILED
    /\ UNCHANGED <<stageStatusS, systemStatusS, monitoringMutexS,
                   workflowMutexS, executionCountS, pageS, looksLikeClassS,
                   bodiesS, actionS, nowS, lastEventS>>

\* shutdown(), on SIGINT or SIGTERM: stopMonitoring(), then the browser is
\* closed; the process exits when the close has settled.
shutdownS ==
    /\ monitoringIntervalS = "set"
    /\ monitoringIntervalS' = "cleared"
    /\ browserS' = IF browserS = "connected" THEN "disconnected" ELSE browserS
    /\ UNCHANGED <<currentStageS, stageStatusS, systemStatusS, monitoringMutexS,
                   workflowMutexS, executionCountS, pageS, looksLikeClassS,
                   bodiesS, actionS, nowS, lastEventS>>

\* The signal handler after "await automation.shutdown()": process.exit(0).
\* Nothing waits for a monitorExecution body that is still suspended.
processExitS ==
    /\ monitoringIntervalS = "cleared"
    /\ ~exitedS
    /\ exitedS' = TRUE
    /\ UNCHANGED <<currentStageS, stageStatusS, systemStatusS, monitoringIntervalS,
                   monitoringMutexS, workflowMutexS, executionCountS, browserS,
                   pageS, looksLikeClassS, bodiesS, actionS, nowS, lastEventS>>

\* The browser process dies or is closed by hand.
browserDisconnectS ==
    /\ browserS = "connected"
    /\ browserS' = "disconnected"
    /\ UNCHANGED <<currentStageS, stageStatusS, systemStatusS, monitoringIntervalS,
                   monitoringMutexS, workflowMutexS, executionCountS, pageS,
                   looksLikeClassS, bodiesS, actionS, nowS, lastEventS>>

\* The page leaves the class view (a redirect, a logout in the page).
pageLeavesClassS ==
    /\ browserS = "connected"
    /\ pageS = "open"
    /\ looksLikeClassS
    /\ mayFail(stageStatusS, MaxFaultsS)
    /\ looksLikeClassS' = FALSE
    /\ UNCHANGED <<currentStageS, stageStatusS, systemStatusS, monitoringIntervalS,
                   monitoringMutexS, workflowMutexS, executionCountS, browserS,
                   pageS, bodiesS, actionS, nowS, lastEventS>>

\* A timer fire that finds the monitoring mutex locked: monitorExecution returns.
monitorSkipS ==
    /\ monitoringIntervalS = "set"
    /\ isLocked(monitoringMutexS)
    /\ lastEventS' = "skipped"
    /\ UNCHANGED <<currentStageS, stageStatusS, systemStatusS, monitoringIntervalS,
                   monitoringMutexS, workflowMutexS, executionCountS, browserS,
                   pageS, looksLikeClassS, bodiesS, actionS, nowS>>

\* The end of a tick: finally { release() } and updateSystemStatus().
finishTickS(cur, st, wf, b, ev) ==
    /\ currentStageS' = cur
    /\ stageStatusS' = st
    /\ systemStatusS' = updateSystemStatusS(cur, st)
    /\ monitoringMutexS' = FALSE
    /\ workflowMutexS' = wf
    /\ bodiesS' = b
    /\ actionS' = NULL
    /\ lastEventS' = ev

\* A timer fire that acquires the mutex and runs monitorExecution up to the
\* first suspension: to the end when no stage action is awaited.
monitorExecutionS ==
    /\ monitoringIntervalS = "set"
    /\ ~isLocked(monitoringMutexS)
    /\ nowS' = Tick(nowS)
    /\ UNCHANGED <<monitoringIntervalS, browserS, pageS, looksLikeClassS>>
    /\ LET stage == stageForS(currentStageS) IN
       IF currentStageS = FAILED
       THEN LET failedStage == findFailedStageS(stageStatusS) IN
            /\ IF failedStage # NULL /\ ~budgetExhausted(stageStatusS[failedStage])
               THEN finishTickS(resetStageBeforeFailureS(failedStage), stageStatusS,
                                workflowMutexS, bodiesS, "rewound")
               ELSE finishTickS(FAILED, stageStatusS, workflowMutexS, bodiesS,
                                "remainsFailed")
            /\ UNCHANGED executionCountS
       ELSE IF budgetExhausted(stageStatusS[stage])
       THEN /\ finishTickS(FAILED, stageStatusS, workflowMutexS, bodiesS,
                           "exhausted")
            /\ UNCHANGED executionCountS
       ELSE IF stage = "healthCheck"
       THEN LET stamped == [stageStatusS EXCEPT ![stage].lastAttempt = nowS']
                h == performHealthCheckS(currentStageS, stamped, browserS, pageS,
                                         looksLikeClassS)
            IN /\ IF h.result
                  THEN finishTickS(h.cur,
                           [h.st EXCEPT ![stage] = MarkSuccess(@, nowS')],
                           workflowMutexS, bodiesS, "ok")
                  ELSE finishTickS(h.cur,
                           [h.st EXCEPT ![stage] = MarkFailure(@)],
                           workflowMutexS, bodiesS, "fail")
               /\ UNCHANGED executionCountS
       ELSE IF stage = "joinClass" /\ isLocked(workflowMutexS)
       THEN \* joinClassroom: "Join already in progress", returns true
            /\ finishTickS(currentStageS,
                           [stageStatusS EXCEPT ![stage] =
                               MarkSuccess([@ EXCEPT !.lastAttempt = nowS'], nowS')],
                           workflowMutexS, bodiesS, "ok")
            /\ UNCHANGED executionCountS
       ELSE /\ stageStatusS' = [stageStatusS EXCEPT ![stage].lastAttempt = nowS']
            /\ monitoringMutexS' = TRUE
            /\ bodiesS' = bodiesS + 1
            /\ actionS' = stage
            /\ IF stage = "joinClass"
               THEN /\ workflowMutexS' = TRUE
                    /\ executionCountS' = IF executionCountS < MaxExecutionCount
                                          THEN executionCountS + 1
                                          ELSE executionCountS
               ELSE UNCHANGED <<workflowMutexS, executionCountS>>
            /\ UNCHANGED <<currentStageS, systemStatusS, lastEventS>>

\* The awaited action ends; attemptStage updates the record; the tick ends.
\* relaunched: getOrCreatePage got a browser and a page before the action
\* ended (it launches one when none is connected).
actionReturnS(outcome, relaunched) ==
    /\ actionS # NULL
    /\ outcome # "ok" => mayFail(stageStatusS, MaxFaultsS)
    /\ LET stage == actionS
           rec == stageStatusS[stage]
           wf == IF stage = "joinClass" THEN FALSE ELSE workflowMutexS
           usesPage == stage \in {"openTarget", "login", "joinClass"}
       IN /\ (outcome = "ok" /\ usesPage) => relaunched
          /\ ~usesPage => ~relaunched
          /\ CASE outcome = "ok" ->
                   finishTickS(nextStageS(stage, currentStageS),
                       [stageStatusS EXCEPT ![stage] = MarkSuccess(rec, nowS)],
                       wf, bodiesS - 1, "ok")
              [] outcome = "fail" ->
                   finishTickS(currentStageS,
                       [stageStatusS EXCEPT ![stage] = MarkFailure(rec)],
                       wf, bodiesS - 1, "fail")
              [] OTHER ->
                   finishTickS(currentStageS,
                       [stageStatusS EXCEPT ![stage] = MarkThrown(rec, stage)],
                       wf, bodiesS - 1, "throw")
          /\ IF stage = "openTarget" /\ outcome # "ok"
             THEN \* openTarget's catch: closeBrowser()
                  /\ ~relaunched
                  /\ browserS' = NULL
                  /\ pageS' = NULL
                  /\ looksLikeClassS' = FALSE
             ELSE IF relaunched
             THEN /\ browserS' = "connected"
                  /\ pageS' = "open"
                  /\ looksLikeClassS' =
                        IF stage = "joinClass" /\ outcome = "ok" THEN TRUE
                        ELSE IF stage = "openTarget" \/ browserS # "connected"
                        THEN FALSE
                        ELSE looksLikeClassS
             ELSE UNCHANGED <<browserS, pageS, looksLikeClassS>>
    /\ UNCHANGED <<monitoringIntervalS, executionCountS, nowS>>

(***************************************************************************)
(* The detector on its own: one check of one set of driver answers         *)
(***************************************************************************)
VARIABLES
    detectorInput,   \* the driver's answers during the check: {} when unused, else {d}
    detectorResult   \* {} before the check, else {what the check did and returned}

varsP == <<detectorInput, detectorResult>>

InitIdleP ==
    /\ detectorInput = {}
    /\ detectorResult = {}

InitDrawnP ==
    /\ \E d \in DetectorInputs : detectorInput = {d}
    /\ detectorResult = {}

runCheckP ==
    /\ detectorResult = {}
    /\ \E d \in detectorInput :
          detectorResult' = {checkIfClassIsStillActive(d)}
    /\ UNCHANGED detectorInput

(***************************************************************************)
(* The classroom orchestrator's recovery functions on their own: the       *)
(* success flags are drawn, findFailedStage reads them and                 *)
(* setStageBeforeFailedStage rewinds from FAILED.                          *)
(***************************************************************************)
VARIABLES
    currentStageR,   \* this.currentStage
    stageStatusR,    \* this.stageStatus
    failedStageR     \* {} before findFailedStage returned, else {what it returned}

varsR == <<currentStageR, stageStatusR, failedStageR>>

InitIdleR ==
    /\ currentStageR = "initial"
    /\ stageStatusR = InitStageStatusC
    /\ failedStageR = {}

InitDrawnR ==
    /\ currentStageR = FAILED
    /\ \E flags \in [DOMAIN InitStageStatusC -> BOOLEAN] :
          stageStatusR = [s \in DOMAIN InitStageStatusC |->
                             [InitStageStatusC[s] EXCEPT !.success = flags[s]]]
    /\ failedStageR = {}

\* const failedStage = this.findFailedStage()
findFailedStageR ==
    /\ currentStageR = FAILED
    /\ failedStageR = {}
    /\ failedStageR' = {findFailedStageC(stageStatusR)}
    /\ UNCHANGED <<currentStageR, stageStatusR>>

\* this.setStageBeforeFailedStage(failedStage), taken when a stage was found
setStageBeforeFailedStageR ==
    /\ currentStageR = FAILED
    /\ \E failedStage \in failedStageR :
          /\ failedStage # NULL
          /\ stageStatusR[failedStage].currentRetries <
                stageStatusR[failedStage].maxRetries
          /\ currentStageR' = setStageBeforeFailedStageC(failedStage)
    /\ UNCHANGED <<stageStatusR, failedStageR>>

(***************************************************************************)
(* The classroom orchestrator's userLogin inside its wait for the page URL *)
(* to leave the login page                                                 *)
(***************************************************************************)
VARIABLES
    loginWaitC   \* the userLogin body is in the while loop that polls page.url()

varsL == <<loginWaitC>>

InitIdleL == loginWaitC = FALSE

\* userLogin from its first driver call to the submit click: every call
\* returned, and the body enters the loop with the URL still the login URL.
userLoginWaitsC ==
    /\ actionC = "userLogin"
    /\ ~loginWaitC
    /\ browserC = "connected"
    /\ pagesC
    /\ loginWaitC' = TRUE
    /\ UNCHANGED varsC

\* A poll finds that page.url() differs from classHomeUrl: the loop ends,
\* userLogin returns true, attemptStage records the success and the tick ends.
\* (A poll that finds the URL unchanged sleeps one second and polls again: it
\* changes nothing.)
userLoginUrlChangesC ==
    /\ loginWaitC
    /\ browserC = "connected"
    /\ loginWaitC' = FALSE
    /\ finishTickC(nextStageC("userLogin"),
           [stageStatusC EXCEPT !["userLogin"] = MarkSuccess(@, nowC)],
           bodiesC - 1, "ok")
    /\ UNCHANGED <<monitoringIntervalC, browserC, pagesC, lecturesC,
                   activeClassLinkC, nowC>>

(***************************************************************************)
(* The constructors of the template and the session orchestrator, with the *)
(* configuration they are given                                            *)
(***************************************************************************)
VARIABLES
    missingVarsT,   \* the template's config has an empty value (missingVars.length > 0)
    missingVarsS    \* the session orchestrator's config lacks a required field

varsK == <<missingVarsT, missingVarsS>>

\* The deployments of the other specifications: a complete configuration
InitIdleK ==
    /\ missingVarsT = FALSE
    /\ missingVarsS = FALSE

\* validateConfig: it has no await, so its body runs to the end inside the call
validateConfig(missingVars, fields) ==
    IF missingVars
    THEN [fields EXCEPT !.systemStatus = "failed", !.currentStage = FAILED]
    ELSE fields

\* The constructor's statements on systemStatus and currentStage, in order:
\* this.validateConfig(); this.systemStatus = "healthy";
\* this.currentStage = ExecutionStage.INITIAL
constructor(missingVars) ==
    LET unassigned == [systemStatus |-> NULL, currentStage |-> NULL]
        validated == validateConfig(missingVars, unassigned)
    IN [validated EXCEPT !.systemStatus = "healthy", !.currentStage = "initial"]

\* new Automation(configInit) of the template, for a drawn configuration
InitDrawnT ==
    /\ missingVarsT \in BOOLEAN
    /\ currentStageT = constructor(missingVarsT).currentStage
    /\ systemStatusT = constructor(missingVarsT).systemStatus
    /\ stageStatusT = InitStageStatusT
    /\ monitoringIntervalT = NULL
    /\ monitoringMutexT = FALSE
    /\ workflowMutexT = FALSE
    /\ executionCountT = 0
    /\ bodiesT = 0
    /\ actionT = NULL
    /\ nowT = 0
    /\ lastEventT = "constructed"

\* new Automation(configInit) of the session orchestrator, for a drawn configuration
InitDrawnS ==
    /\ missingVarsS \in BOOLEAN
    /\ currentStageS = constructor(missingVarsS).currentStage
    /\ systemStatusS = constructor(missingVarsS).systemStatus
    /\ stageStatusS = InitStageStatusS
    /\ monitoringIntervalS = NULL
    /\ monitoringMutexS = FALSE
    /\ workflowMutexS = FALSE
    /\ executionCountS = 0
    /\ browserS = NULL
    /\ pageS = NULL
    /\ looksLikeClassS = FALSE
    /\ bodiesS = 0
    /\ actionS = NULL
    /\ nowS = 0
    /\ lastEventS = "constructed"
    /\ exitedS = FALSE

(***************************************************************************)
(* The session orchestrator's HTTP authentication: the session store, the  *)
(* tokens it has issued, and the login, logout and protected routes        *)
(* (src/unnamed/part_002)                                                  *)
(***************************************************************************)
VARIABLES
    activeSessionsA,   \* activeSessions: the Map's entries
    issuedA,           \* every token a login has returned
    nextSessionIdA,    \* the next value randomUUID() returns
    nowA,              \* Date.now()
    lastResponseA      \* history: the last request and the status it was answered with

varsA == <<activeSessionsA, issuedA, nextSessionIdA, nowA, lastResponseA>>

TokenTtlA == 1      \* TOKEN_TTL_MS, in clock units
MaxNowA == 3        \* the clock stops here
MaxSessionsA == 2   \* logins that issue a session

\* Usernames are strings over this alphabet
ConfigUsernameA == <<"A", "b">>      \* configInit.username
ConfigPasswordA == "secret"          \* configInit.password
RawUsernamesA == {<<"A", "b">>, <<" ", "a", "b", " ">>, <<"a", " ", "b">>, <<>>}
PasswordsA == {"secret", "wrong", ""}
ClientIdsA == {"c1", "c2"}

\* String.prototype.trim and toLowerCase
RECURSIVE trimStart(_)
trimStart(s) ==
    IF s # <<>> /\ Head(s) = " " THEN trimStart(Tail(s)) ELSE s
RECURSIVE trimEnd(_)
trimEnd(s) ==
    IF s # <<>> /\ s[Len(s)] = " " THEN trimEnd(SubSeq(s, 1, Len(s) - 1)) ELSE s
toLowerCase(s) ==
    [i \in 1..Len(s) |-> CASE s[i] = "A" -> "a" [] s[i] = "B" -> "b" [] OTHER -> s[i]]

\* normalizeUsername
normalizeUsername(username) == toLowerCase(trimEnd(trimStart(username)))

\* Map.prototype.get, set and delete on the entries
MapGet(m, k) == {e \in m : e.key = k}
MapSet(m, k, v) == {e \in m : e.key # k} \cup {[key |-> k, session |-> v]}
MapDelete(m, k) == {e \in m : e.key # k}

NoToken ==
    [kind |-> "none", sub |-> <<>>, clientId |-> NULL, sessionId |-> 0, exp |-> 0]
\* A token that jwt.verify refuses: not signed with JWT_SECRET
ForgedToken ==
    [kind |-> "forged", sub |-> normalizeUsername(ConfigUsernameA),
     clientId |-> "c1", sessionId |-> 1, exp |-> MaxNowA + TokenTtlA + 1]

\* issueSession.  jwt.sign stamps the token with its own reading of the clock,
\* in whole seconds: the token lapses with the session, or (late) one unit after
\* it when the two readings straddle a second.
issueSession(username, clientId, sessionId, now, late) ==
    [sessionId |-> sessionId,
     username |-> normalizeUsername(username),
     clientId |-> clientId,
     expiresAt |-> now + TokenTtlA,
     token |-> [kind |-> "signed", sub |-> normalizeUsername(username),
                clientId |-> clientId, sessionId |-> sessionId,
                exp |-> now + TokenTtlA + (IF late THEN 1 ELSE 0)]]

\* jwt.verify: the signature and the exp claim
jwtVerifies(token, now) == token.kind = "signed" /\ now < token.exp

sameSessionBroken(session, payload) == session.clientId = payload.clientId
\* session.sessionId === payload.sessionId && session.clientId === payload.clientId
sameSession(session, payload) ==
    session.sessionId = payload.sessionId /\ session.clientId = payload.clientId

\* authenticate: the status it answers with (200 stands for next()), the store
\* it leaves and req.auth.username
authenticate(store, token, now) ==
    IF token.kind = "none" THEN [status |-> 401, store |-> store, username |-> <<>>]
    ELSE IF ~jwtVerifies(token, now)
    THEN [status |-> 401, store |-> store, username |-> <<>>]
    ELSE LET username == normalizeUsername(token.sub)
             found == MapGet(store, username)
         IN IF found = {} THEN [status |-> 401, store |-> store, username |-> <<>>]
            ELSE LET session == (CHOOSE e \in found : TRUE).session IN
                 IF now > session.expiresAt
                 THEN [status |-> 401, store |-> MapDelete(store, username),
                       username |-> <<>>]
                 ELSE IF ~sameSession(session, token)
                 THEN [status |-> 401, store |-> store, username |-> <<>>]
                 ELSE [status |-> 200, store |-> store, username |-> username]

InitIdleA ==
    /\ activeSessionsA = {}
    /\ issuedA = {}
    /\ nextSessionIdA = 1
    /\ nowA = 0
    /\ lastResponseA = [op |-> "none", status |-> 0, username |-> <<>>,
                        clientId |-> NULL, sessionId |-> 0]

conflictsBroken(existing, clientId) == FALSE
\* existingSession && existingSession.clientId !== resolvedClientId
conflicts(existing, clientId) ==
    \E e \in existing : e.session.clientId # clientId

\* POST /login.  clientId is what resolveClientId returns for the request.
loginHandler(username, password, clientId, late) ==
    LET normalizedUsername == normalizeUsername(username)
        expectedUsername == normalizeUsername(ConfigUsernameA)
        existingSession == MapGet(activeSessionsA, normalizedUsername)
        session == issueSession(normalizedUsername, clientId, nextSessionIdA, nowA, late)
        respond(status, sid) ==
            lastResponseA' = [op |-> "login", status |-> status,
                              username |-> normalizedUsername,
                              clientId |-> clientId, sessionId |-> sid]
    IN
    /\ UNCHANGED nowA
    /\ IF username = <<>> \/ password = ""
       THEN /\ lastResponseA' = [op |-> "login", status |-> 400, username |-> <<>>,
                                 clientId |-> clientId, sessionId |-> 0]
            /\ UNCHANGED <<activeSessionsA, issuedA, nextSessionIdA>>
       ELSE IF normalizedUsername # expectedUsername \/ password # ConfigPasswordA
       THEN /\ respond(401, 0)
            /\ UNCHANGED <<activeSessionsA, issuedA, nextSessionIdA>>
       ELSE IF conflicts(existingSession, clientId)
       THEN /\ respond(409, 0)
            /\ UNCHANGED <<activeSessionsA, issuedA, nextSessionIdA>>
       ELSE /\ nextSessionIdA <= MaxSessionsA
            /\ activeSessionsA' =
                  MapSet(activeSessionsA, normalizedUsername,
                         [sessionId |-> session.sessionId, username |-> session.username,
                          clientId |-> session.clientId, expiresAt |-> session.expiresAt])
            /\ issuedA' = issuedA \cup {session.token}
            /\ nextSessionIdA' = nextSessionIdA + 1
            /\ respond(200, session.sessionId)

\* POST /logout, GET /session and GET /classroom behind authenticate
protectedRoute(op, token) ==
    LET auth == authenticate(activeSessionsA, token, nowA)
        respond(status) ==
            lastResponseA' = [op |-> op, status |-> status,
                              username |-> normalizeUsername(token.sub),
                              clientId |-> token.clientId,
                              sessionId |-> token.sessionId]
    IN
    /\ UNCHANGED <<issuedA, nextSessionIdA, nowA>>
    /\ IF auth.status # 200
       THEN /\ activeSessionsA' = auth.store
            /\ respond(auth.status)
       ELSE IF op = "logout"
       THEN /\ activeSessionsA' = MapDelete(auth.store, auth.username)
            /\ respond(200)
       ELSE /\ activeSessionsA' = auth.store
            /\ respond(IF op = "session" /\ MapGet(auth.store, auth.username) = {}
                       THEN 404 ELSE 200)

\* Time passes
clockAdvancesA ==
    /\ nowA < MaxNowA
    /\ nowA' = nowA + 1
    /\ UNCHANGED <<activeSessionsA, issuedA, nextSessionIdA, lastResponseA>>

(***************************************************************************)
(* The mock classroom server's WebSocket connections                       *)
(* (src/unnamed/part_004 and src/mock-class-server/index.ts)               *)
(***************************************************************************)
VARIABLES
    variantW,       \* which of the two servers runs: "part_004" or "index"
    activeUsersW,   \* activeUsers: the ids the Map has an entry for
    connsW,         \* per connection: its state, its userId and the ids it announced
    sentW           \* history: the messages the last handler sent

varsW == <<variantW, activeUsersW, connsW, sentW>>

ConnsW == {"k1", "k2"}
UserIdsW == {"u1", "u2"}

\* The connections wss.clients holds with readyState OPEN
openW(conns) == {c \in ConnsW : conns[c].state = "open"}

\* broadcast(data, excludeWs)
broadcast(conns, type, id, excludeWs) ==
    {[to |-> c, type |-> type, id |-> id] : c \in openW(conns) \ excludeWs}

InitIdleW ==
    /\ variantW = "part_004"
    /\ activeUsersW = {}
    /\ connsW = [c \in ConnsW |-> [state |-> "new", userId |-> NULL, announced |-> {}]]
    /\ sentW = {}

\* Either server, freshly started
InitDrawnW ==
    /\ variantW \in {"part_004", "index"}
    /\ activeUsersW = {}
    /\ connsW = [c \in ConnsW |-> [state |-> "new", userId |-> NULL, announced |-> {}]]
    /\ sentW = {}

\* wss.on('connection'): userId = null and INITIAL_STATE to the new client
connectionW(c) ==
    /\ connsW[c].state = "new"
    /\ connsW' = [connsW EXCEPT ![c].state = "open"]
    /\ sentW' = {[to |-> c, type |-> "INITIAL_STATE", id |-> NULL]}
    /\ UNCHANGED <<variantW, activeUsersW>>

\* case 'JOIN' with data.user.id = id
joinW(c, id) ==
    /\ connsW[c].state = "open"
    /\ UNCHANGED variantW
    /\ IF variantW = "part_004" /\ id \in activeUsersW
       THEN /\ connsW' = [connsW EXCEPT ![c].announced = @ \cup {id}]
            /\ sentW' = {[to |-> c, type |-> "JOIN_CONFIRMED", id |-> id]}
            /\ UNCHANGED activeUsersW
       ELSE /\ activeUsersW' = activeUsersW \cup {id}
            /\ connsW' = [connsW EXCEPT ![c].userId = id, ![c].announced = @ \cup {id}]
            /\ sentW' = (IF variantW = "part_004"
                         THEN {[to |-> c, type |-> "JOIN_CONFIRMED", id |-> id]}
                         ELSE {})
                        \cup broadcast(connsW, "USER_JOINED", id, {c})

\* case 'UPDATE' with data.user.id = id
updateW(c, id) ==
    /\ connsW[c].state = "open"
    /\ activeUsersW' = activeUsersW \cup {id}
    /\ connsW' = [connsW EXCEPT ![c].announced = @ \cup {id}]
    /\ sentW' = broadcast(connsW, "USER_UPDATE", id,
                          IF variantW = "part_004" THEN {} ELSE {c})
    /\ UNCHANGED variantW

\* case 'SYNC'; a JOIN or UPDATE without a user id and a message that does not
\* parse change nothing and send nothing
syncW(c) ==
    /\ connsW[c].state = "open"
    /\ sentW' = {[to |-> c, type |-> "INITIAL_STATE", id |-> NULL]}
    /\ UNCHANGED <<variantW, activeUsersW, connsW>>

\* ws.on('close')
closeW(c) ==
    /\ connsW[c].state = "open"
    /\ connsW' = [connsW EXCEPT ![c].state = "closed"]
    /\ UNCHANGED variantW
    /\ IF connsW[c].userId # NULL
       THEN /\ activeUsersW' = activeUsersW \ {connsW[c].userId}
            /\ sentW' = broadcast(connsW', "USER_LEFT", connsW[c].userId, {})
       ELSE /\ sentW' = {}
            /\ UNCHANGED activeUsersW

(***************************************************************************)
(* The classroom client's user list                                        *)
(* (src/mock-class-frontend/src/pages/Classroom.tsx)                       *)
(***************************************************************************)
VARIABLES
    usersU,          \* the users state: a list of users
    hasJoinedU,      \* hasJoined.current
    updateQueueU,    \* updateQueue.current
    flushTimeoutU,   \* the 50 ms flush timer is pending
    leftSeenU,       \* history: a USER_LEFT for myUserId was handled
    lastEventU       \* history: the last handler that ran

varsU == <<usersU, hasJoinedU, updateQueueU, flushTimeoutU, leftSeenU, lastEventU>>

MaxQueueU == 2   \* updates that can wait for one flush

myUserId == "me"
UserIdsU == {myUserId, "o1"}
UsersU == [id : UserIdsU, isMicOn : BOOLEAN]

\* The user lists the server sends: Array.from(activeUsers.values()), one user
\* per id
UserListsU ==
    {<<>>, <<[id |-> "o1", isMicOn |-> FALSE]>>, <<[id |-> myUserId, isMicOn |-> FALSE]>>,
     <<[id |-> "o1", isMicOn |-> FALSE], [id |-> myUserId, isMicOn |-> FALSE]>>,
     <<[id |-> myUserId, isMicOn |-> FALSE], [id |-> "o1", isMicOn |-> TRUE]>>}

idsOf(list) == {list[i].id : i \in 1..Len(list)}

\* One case of flushUpdateQueue's switch
applyUpdate(current, update) ==
    CASE update.type = "ADD" ->
            IF update.user.id \in idsOf(current) THEN current
            ELSE Append(current, update.user)
      [] update.type = "REMOVE" ->
            SelectSeq(current, LAMBDA u : u.id # update.userId)
      [] update.type = "UPDATE" ->
            [i \in 1..Len(current) |->
                IF current[i].id = update.user.id THEN update.user ELSE current[i]]
      [] OTHER -> update.users   \* REPLACE

\* flushUpdateQueue's loop over the queued updates
RECURSIVE applyUpdates(_, _)
applyUpdates(current, updates) ==
    IF updates = <<>> THEN current
    ELSE applyUpdates(applyUpdate(current, Head(updates)), Tail(updates))

NoUser == [id |-> NULL, isMicOn |-> FALSE]

InitIdleU ==
    /\ usersU = <<>>
    /\ hasJoinedU = FALSE
    /\ updateQueueU = <<>>
    /\ flushTimeoutU = FALSE
    /\ leftSeenU = FALSE
    /\ lastEventU = "mounted"

\* queueUpdate: push, and restart the 50 ms timer
queueUpdate(type, user, userId, users) ==
    /\ Len(updateQueueU) < MaxQueueU
    /\ updateQueueU' = Append(updateQueueU,
           [type |-> type, user |-> user, userId |-> userId, users |-> users])
    /\ flushTimeoutU' = TRUE

\* handleServerMessage, case INITIAL_STATE.  A list that names this client was
\* sent after its JOIN was processed, so it arrives after JOIN_CONFIRMED.
initialStateU(users) ==
    /\ myUserId \in idsOf(users) => hasJoinedU
    /\ lastEventU' = "INITIAL_STATE"
    /\ IF ~hasJoinedU
       THEN /\ queueUpdate("REPLACE", NoUser, NULL, users)
            /\ UNCHANGED <<usersU, hasJoinedU, leftSeenU>>
       ELSE /\ usersU' = usersU \o SelectSeq(users, LAMBDA u : u.id \notin idsOf(usersU))
            /\ UNCHANGED <<hasJoinedU, updateQueueU, flushTimeoutU, leftSeenU>>

\* handleServerMessage, case JOIN_CONFIRMED (for this client's own user)
joinConfirmedU(user) ==
    /\ user.id = myUserId
    /\ hasJoinedU' = TRUE
    /\ usersU' = IF user.id \in idsOf(usersU) THEN usersU ELSE Append(usersU, user)
    /\ lastEventU' = "JOIN_CONFIRMED"
    /\ UNCHANGED <<updateQueueU, flushTimeoutU, leftSeenU>>

\* handleServerMessage, case USER_JOINED
userJoinedU(user) ==
    /\ queueUpdate("ADD", user, NULL, <<>>)
    /\ lastEventU' = "USER_JOINED"
    /\ UNCHANGED <<usersU, hasJoinedU, leftSeenU>>

\* handleServerMessage, case USER_LEFT
userLeftU(userId) ==
    /\ queueUpdate("REMOVE", NoUser, userId, <<>>)
    /\ leftSeenU' = (leftSeenU \/ userId = myUserId)
    /\ lastEventU' = "USER_LEFT"
    /\ UNCHANGED <<usersU, hasJoinedU>>

\* handleServerMessage, case USER_UPDATE
userUpdateU(user) ==
    /\ queueUpdate("UPDATE", user, NULL, <<>>)
    /\ lastEventU' = "USER_UPDATE"
    /\ UNCHANGED <<usersU, hasJoinedU, leftSeenU>>

\* The timer fires 50 ms after the last queueUpdate: flushUpdateQueue
flushUpdateQueue ==
    /\ flushTimeoutU
    /\ flushTimeoutU' = FALSE
    /\ updateQueueU' = <<>>
    /\ usersU' = applyUpdates(usersU, updateQueueU)
    /\ lastEventU' = "flush"
    /\ UNCHANGED <<hasJoinedU, leftSeenU>>

(***************************************************************************)
(* Specifications                                                          *)
(***************************************************************************)
vars == <<varsT, varsC, varsS, varsP, varsR, varsL, varsK, varsA, varsW, varsU>>

Init == InitT /\ InitC /\ InitS /\ InitIdleP /\ InitIdleR /\ InitIdleL /\ InitIdleK /\ InitIdleA /\ InitIdleW /\ InitIdleU

InitP == InitT /\ InitC /\ InitS /\ InitDrawnP /\ InitIdleR /\ InitIdleL /\ InitIdleK /\ InitIdleA /\ InitIdleW /\ InitIdleU

InitJ == InitT /\ InitC /\ InitHeldS /\ InitIdleP /\ InitIdleR /\ InitIdleL /\ InitIdleK /\ InitIdleA /\ InitIdleW /\ InitIdleU

InitR == InitT /\ InitC /\ InitS /\ InitIdleP /\ InitDrawnR /\ InitIdleL /\ InitIdleK /\ InitIdleA /\ InitIdleW /\ InitIdleU

NextT ==
    \/ startMonitoringT /\ UNCHANGED <<varsC, varsS, varsP, varsR, varsL, varsK, varsA, varsW, varsU>>
    \/ stopMonitoringT /\ UNCHANGED <<varsC, varsS, varsP, varsR, varsL, varsK, varsA, varsW, varsU>>
    \/ monitorSkipT /\ UNCHANGED <<varsC, varsS, varsP, varsR, varsL, varsK, varsA, varsW, varsU>>
    \/ monitorExecutionT /\ UNCHANGED <<varsC, varsS, varsP, varsR, varsL, varsK, varsA, varsW, varsU>>
    \/ \E outcome \in Outcomes :
          actionReturnT(outcome) /\ UNCHANGED <<varsC, varsS, varsP, varsR, varsL, varsK, varsA, varsW, varsU>>

NextC ==
    \/ startMonitoringC /\ UNCHANGED <<varsT, varsS, varsP, varsR, varsL, varsK, varsA, varsW, varsU>>
    \/ browserDisconnectC /\ UNCHANGED <<varsT, varsS, varsP, varsR, varsL, varsK, varsA, varsW, varsU>>
    \/ monitorSkipC /\ UNCHANGED <<varsT, varsS, varsP, varsR, varsL, varsK, varsA, varsW, varsU>>
    \/ \E g \in LinkOutcomes :
          monitorExecutionC(g) /\ UNCHANGED <<varsT, varsS, varsP, varsR, varsL, varsK, varsA, varsW, varsU>>
    \/ \E outcome \in Outcomes, b \in {NULL, "connected", "disconnected"},
          l \in {NULL, "empty", "some"} :
          stageReturnC(outcome, b, l) /\ UNCHANGED <<varsT, varsS, varsP, varsR, varsL, varsK, varsA, varsW, varsU>>
    \/ \E r \in [verdict : BOOLEAN, joinClassError : BOOLEAN] :
          presenceReturnC(r) /\ UNCHANGED <<varsT, varsS, varsP, varsR, varsL, varsK, varsA, varsW, varsU>>

\* While the process lives its timers and continuations run; after
\* process.exit(0) nothing does.
NextS ==
    \/ ~exitedS /\ startMonitoringS /\ UNCHANGED <<exitedS, varsT, varsC, varsP, varsR, varsL, varsK, varsA, varsW, varsU>>
    \/ ~exitedS /\ shutdownS /\ UNCHANGED <<exitedS, varsT, varsC, varsP, varsR, varsL, varsK, varsA, varsW, varsU>>
    \/ ~exitedS /\ browserDisconnectS /\ UNCHANGED <<exitedS, varsT, varsC, varsP, varsR, varsL, varsK, varsA, varsW, varsU>>
    \/ ~exitedS /\ pageLeavesClassS /\ UNCHANGED <<exitedS, varsT, varsC, varsP, varsR, varsL, varsK, varsA, varsW, varsU>>
    \/ ~exitedS /\ monitorSkipS /\ UNCHANGED <<exitedS, varsT, varsC, varsP, varsR, varsL, varsK, varsA, varsW, varsU>>
    \/ ~exitedS /\ monitorExecutionS /\ UNCHANGED <<exitedS, varsT, varsC, varsP, varsR, varsL, varsK, varsA, varsW, varsU>>
    \/ \E outcome \in Outcomes, relaunched \in BOOLEAN :
          /\ ~exitedS
          /\ actionReturnS(outcome, relaunched)
          /\ UNCHANGED <<exitedS, varsT, varsC, varsP, varsR, varsL, varsK, varsA, varsW, varsU>>
    \/ processExitS /\ UNCHANGED <<varsT, varsC, varsP, varsR, varsL, varsK, varsA, varsW, varsU>>

NextP == runCheckP /\ UNCHANGED <<varsT, varsC, varsS, varsR, varsL, varsK, varsA, varsW, varsU>>

NextR ==
    \/ findFailedStageR /\ UNCHANGED <<varsT, varsC, varsS, varsP, varsL, varsK, varsA, varsW, varsU>>
    \/ setStageBeforeFailedStageR /\ UNCHANGED <<varsT, varsC, varsS, varsP, varsL, varsK, varsA, varsW, varsU>>

\* A deployment runs one of the orchestrators: the template or the classroom one.
NextTC ==
    \/ monitoringIntervalC = NULL /\ NextT
    \/ monitoringIntervalT = NULL /\ NextC

SpecT == Init /\ [][NextT]_vars
SpecC == Init /\ [][NextC]_vars
SpecS == Init /\ [][NextS]_vars
SpecP == InitP /\ [][NextP]_vars
SpecJ == InitJ /\ [][NextS]_vars

\* The session orchestrator's scheduling: run() starts the timer, setInterval
\* keeps firing monitorExecution, and an awaited stage action settles.
startStepS ==
    ~exitedS /\ startMonitoringS /\ UNCHANGED <<exitedS, varsT, varsC, varsP, varsR, varsL, varsK, varsA, varsW, varsU>>
tickStepS ==
    ~exitedS /\ monitorExecutionS /\ UNCHANGED <<exitedS, varsT, varsC, varsP, varsR, varsL, varsK, varsA, varsW, varsU>>
returnStepS ==
    \E outcome \in Outcomes, relaunched \in BOOLEAN :
        /\ ~exitedS
        /\ actionReturnS(outcome, relaunched)
        /\ UNCHANGED <<exitedS, varsT, varsC, varsP, varsR, varsL, varsK, varsA, varsW, varsU>>

FairSpecS ==
    /\ SpecS
    /\ WF_vars(startStepS)
    /\ WF_vars(tickStepS)
    /\ WF_vars(returnStepS)
SpecR == InitR /\ [][NextR]_vars
SpecTC == Init /\ [][NextTC]_vars

\* The template orchestrator in an environment where a statement of the
\* dispatch can raise.
NextE ==
    \/ NextT
    \/ monitorEscapesT /\ UNCHANGED <<varsC, varsS, varsP, varsR, varsL, varsK, varsA, varsW, varsU>>

SpecE == Init /\ [][NextE]_vars

\* The two orchestrators with a workflow mutex: the template or the session one.
NextTS ==
    \/ monitoringIntervalS = NULL /\ NextT
    \/ monitoringIntervalT = NULL /\ NextS

SpecTS == Init /\ [][NextTS]_vars

\* Everything but the classroom orchestrator and its login wait
restL == <<varsT, varsS, varsP, varsR, varsK, varsA, varsW, varsU>>

\* The classroom orchestrator with userLogin's wait loop: an attempt that
\* reached the loop returns only when the URL has changed.  A lost connection
\* is a fault, and faults are bounded.
NextL ==
    \/ startMonitoringC /\ UNCHANGED <<varsT, varsS, varsP, varsR, varsL, varsK, varsA, varsW, varsU>>
    \/ /\ mayFail(stageStatusC, MaxFaultsC)
       /\ browserDisconnectC
       /\ UNCHANGED <<varsT, varsS, varsP, varsR, varsL, varsK, varsA, varsW, varsU>>
    \/ monitorSkipC /\ UNCHANGED <<varsT, varsS, varsP, varsR, varsL, varsK, varsA, varsW, varsU>>
    \/ \E g \in LinkOutcomes :
          monitorExecutionC(g) /\ UNCHANGED <<varsT, varsS, varsP, varsR, varsL, varsK, varsA, varsW, varsU>>
    \/ \E outcome \in Outcomes, b \in {NULL, "connected", "disconnected"},
          l \in {NULL, "empty", "some"} :
          /\ ~loginWaitC
          /\ stageReturnC(outcome, b, l)
          /\ UNCHANGED <<varsT, varsS, varsP, varsR, varsL, varsK, varsA, varsW, varsU>>
    \/ \E r \in [verdict : BOOLEAN, joinClassError : BOOLEAN] :
          presenceReturnC(r) /\ UNCHANGED <<varsT, varsS, varsP, varsR, varsL, varsK, varsA, varsW, varsU>>
    \/ userLoginWaitsC /\ UNCHANGED restL
    \/ userLoginUrlChangesC /\ UNCHANGED restL

SpecL == Init /\ [][NextL]_vars

\* The classroom orchestrator's scheduling: setInterval keeps firing
\* monitorExecution, and every awaited driver call returns or throws, so a
\* suspended stage action or presence check that is not polling settles.
\* Whether the page URL ever changes is the site's choice.
startStepL == startMonitoringC /\ UNCHANGED <<varsT, varsS, varsP, varsR, varsL, varsK, varsA, varsW, varsU>>
tickStepL ==
    \E g \in LinkOutcomes :
        monitorExecutionC(g) /\ UNCHANGED <<varsT, varsS, varsP, varsR, varsL, varsK, varsA, varsW, varsU>>
returnStepL ==
    \/ \E outcome \in Outcomes, b \in {NULL, "connected", "disconnected"},
          l \in {NULL, "empty", "some"} :
          /\ ~loginWaitC
          /\ stageReturnC(outcome, b, l)
          /\ UNCHANGED <<varsT, varsS, varsP, varsR, varsL, varsK, varsA, varsW, varsU>>
    \/ \E r \in [verdict : BOOLEAN, joinClassError : BOOLEAN] :
          presenceReturnC(r) /\ UNCHANGED <<varsT, varsS, varsP, varsR, varsL, varsK, varsA, varsW, varsU>>

FairSpecL ==
    /\ SpecL
    /\ WF_vars(startStepL)
    /\ WF_vars(tickStepL)
    /\ WF_vars(returnStepL)

\* The template or the session orchestrator, constructed from a drawn configuration
InitK == InitDrawnT /\ InitC /\ InitDrawnS /\ InitIdleP /\ InitIdleR /\ InitIdleL /\ InitIdleA /\ InitIdleW /\ InitIdleU

SpecK == InitK /\ [][NextTS]_vars

\* Everything but the HTTP authentication
restA == <<varsT, varsC, varsS, varsP, varsR, varsL, varsK, varsW, varsU>>

\* The HTTP server's requests, one handler at a time
NextA ==
    \/ \E username \in RawUsernamesA, password \in PasswordsA,
          clientId \in ClientIdsA, late \in BOOLEAN :
          loginHandler(username, password, clientId, late) /\ UNCHANGED restA
    \/ \E op \in {"logout", "session", "classroom"},
          token \in issuedA \cup {NoToken, ForgedToken} :
          protectedRoute(op, token) /\ UNCHANGED restA
    \/ clockAdvancesA /\ UNCHANGED restA

SpecA == Init /\ [][NextA]_vars

\* Everything but the mock classroom server
restW == <<varsT, varsC, varsS, varsP, varsR, varsL, varsK, varsA, varsU>>

InitW == InitT /\ InitC /\ InitS /\ InitIdleP /\ InitIdleR /\ InitIdleL /\ InitIdleK /\ InitIdleA /\ InitDrawnW /\ InitIdleU

\* The mock classroom server's handlers, one at a time
NextW ==
    \/ \E c \in ConnsW : connectionW(c) /\ UNCHANGED restW
    \/ \E c \in ConnsW, id \in UserIdsW : joinW(c, id) /\ UNCHANGED restW
    \/ \E c \in ConnsW, id \in UserIdsW : updateW(c, id) /\ UNCHANGED restW
    \/ \E c \in ConnsW : syncW(c) /\ UNCHANGED restW
    \/ \E c \in ConnsW : closeW(c) /\ UNCHANGED restW

SpecW == InitW /\ [][NextW]_vars

\* Everything but the classroom client
restU == <<varsT, varsC, varsS, varsP, varsR, varsL, varsK, varsA, varsW>>

\* The client's message handler and its flush timer, in any order
NextU ==
    \/ \E users \in UserListsU : initialStateU(users) /\ UNCHANGED restU
    \/ \E user \in UsersU : joinConfirmedU(user) /\ UNCHANGED restU
    \/ \E user \in UsersU : userJoinedU(user) /\ UNCHANGED restU
    \/ \E userId \in UserIdsU : userLeftU(userId) /\ UNCHANGED restU
    \/ \E user \in UsersU : userUpdateU(user) /\ UNCHANGED restU
    \/ flushUpdateQueue /\ UNCHANGED restU

SpecU == Init /\ [][NextU]_vars

(***************************************************************************)
(* Properties                                                              *)
(***************************************************************************)
\* A timer fire that gets past the mutex gate (the only steps possible while
\* the timer is set and the mutex is free are this and shutdown, which clears
\* the timer).
TickStartsT ==
    /\ monitoringIntervalT = "set" /\ monitoringIntervalT' = "set"
    /\ ~monitoringMutexT
    /\ varsT' # varsT

\* The step in which an awaited stage action ends and its tick with it
TickReturnsT == monitoringMutexT /\ ~monitoringMutexT'
TickReturnsC == monitoringMutexC /\ ~monitoringMutexC'

\* The step that ends a tick of the session orchestrator, suspended or not
TickEndsS ==
    /\ ~monitoringMutexS'
    /\ \/ monitoringMutexS
       \/ <<currentStageS, stageStatusS, systemStatusS, nowS, lastEventS>>' #
          <<currentStageS, stageStatusS, systemStatusS, nowS, lastEventS>>

\* C1: in the classroom orchestrator every stage record, including
\* getClassLinkFromLectures, has currentRetries <= maxRetries in every state,
\* whatever the outcomes of the ticks so far.
C1_RetriesWithinBudget ==
    \A s \in DOMAIN stageStatusC :
        stageStatusC[s].currentRetries <= stageStatusC[s].maxRetries

\* C1, the run that breaks it: getClassLinkFromLectures has thrown once more
\* than its budget allows.
C1_LinkRetriesExceedBudget ==
    /\ lastEventC = "linkThrew"
    /\ stageStatusC["getClassLinkFromLectures"].currentRetries >
       stageStatusC["getClassLinkFromLectures"].maxRetries

\* C2: for every stage of the template, a tick that calls attemptStage while
\* the stage's currentRetries >= maxRetries does not invoke the action (no body
\* suspends in it), sets currentStage to FAILED, ends as a refusal and leaves
\* every stage record as it was.
C2_ExhaustedStageIsNotInvoked ==
    [][\A s \in DOMAIN stageStatusT :
          (/\ TickStartsT
           /\ stageForT(currentStageT) = s
           /\ stageStatusT[s].currentRetries >= stageStatusT[s].maxRetries)
          => /\ actionT' = NULL
             /\ bodiesT' = bodiesT
             /\ ~monitoringMutexT'
             /\ currentStageT' = FAILED
             /\ stageStatusT' = stageStatusT
             /\ lastEventT' = "exhausted"]_vars

\* C2, its case: the guard has refused workflowExecution, whose budget of five
\* is used up.
C2_GuardRefusedWorkflow ==
    /\ lastEventT = "exhausted"
    /\ currentStageT = FAILED
    /\ stageStatusT["initialization"].success
    /\ stageStatusT["workflowExecution"].currentRetries = MaxRetriesWorkflowExecutionT

\* C3: in the template and in the classroom orchestrator at most one
\* monitorExecution body is past the monitoring mutex; a timer fire during a
\* suspended tick changes neither currentStage, nor a stage record, nor
\* systemStatus, and starts no body; when the suspended tick returns, no body
\* is left to run later.
C3_ContendedTickIsDropped ==
    [][/\ bodiesT' <= 1 /\ bodiesC' <= 1
       /\ lastEventT' = "skipped" =>
             /\ monitoringMutexT
             /\ UNCHANGED <<currentStageT, stageStatusT, systemStatusT, bodiesT,
                            actionT, monitoringMutexT>>
       /\ lastEventC' = "skipped" =>
             /\ monitoringMutexC
             /\ UNCHANGED <<currentStageC, stageStatusC, systemStatusC, bodiesC,
                            actionC, monitoringMutexC>>
       /\ TickReturnsT => bodiesT' = 0 /\ actionT' = NULL
       /\ TickReturnsC => bodiesC' = 0 /\ actionC' = NULL]_vars

\* C3, its case: a timer fire was dropped while a tick of the classroom
\* orchestrator is suspended in joinClass.
C3_TickDroppedDuringJoin ==
    /\ lastEventC = "skipped"
    /\ actionC = "joinClass"
    /\ monitoringMutexC
    /\ bodiesC = 1

\* C4: in the template and in the classroom orchestrator, when an action that
\* attemptStage invoked ends: with success, the stage's success is true,
\* lastSuccessTime is the time of the update, lastError is null and
\* currentRetries is what it was; with failure or a thrown error, success is
\* false and currentRetries is one more than it was.
C4_AttemptUpdatesRecord ==
    [][/\ TickReturnsT =>
             LET rec == stageStatusT[actionT]
                 new == stageStatusT'[actionT]
             IN /\ lastEventT' \in Outcomes
                /\ lastEventT' = "ok" =>
                      /\ new.success
                      /\ new.lastSuccessTime = nowT /\ nowT >= 1
                      /\ new.lastError = NULL
                      /\ new.currentRetries = rec.currentRetries
                /\ lastEventT' # "ok" =>
                      /\ ~new.success
                      /\ new.currentRetries = rec.currentRetries + 1
       /\ (TickReturnsC /\ actionC \in DOMAIN stageStatusC) =>
             LET rec == stageStatusC[actionC]
                 new == stageStatusC'[actionC]
             IN /\ lastEventC' \in Outcomes
                /\ lastEventC' = "ok" =>
                      /\ new.success
                      /\ new.lastSuccessTime = nowC /\ nowC >= 1
                      /\ new.lastError = NULL
                      /\ new.currentRetries = rec.currentRetries
                /\ lastEventC' # "ok" =>
                      /\ ~new.success
                      /\ new.currentRetries = rec.currentRetries + 1]_vars

\* C4, its case: userLogin succeeded after one failed attempt, which left its
\* counter at 1, and a later stage has failed since.
C4_SuccessAfterFailure ==
    /\ stageStatusC["userLogin"].success
    /\ stageStatusC["userLogin"].currentRetries = 1
    /\ stageStatusC["userLogin"].lastError = NULL
    /\ lastEventC = "fail"
    /\ ~stageStatusC["verifyUserLogin"].success
    /\ stageStatusC["verifyUserLogin"].currentRetries = 1

\* C5 reads the aggregator off the claim: FAILED gives degraded when some
\* stage is unsuccessful with retries left, else failed; the terminal stage
\* gives healthy; otherwise all, some or none successful give healthy,
\* degraded or failed.
C5_Aggregate ==
    LET stages == DOMAIN stageStatusS
        retriable == {s \in stages : /\ ~stageStatusS[s].success
                                     /\ stageStatusS[s].currentRetries <
                                        stageStatusS[s].maxRetries}
        succeeded == {s \in stages : stageStatusS[s].success}
    IN CASE currentStageS = FAILED ->
              IF retriable # {} THEN "degraded" ELSE "failed"
         [] currentStageS = "joined_class" -> "healthy"
         [] succeeded = stages -> "healthy"
         [] succeeded = {} -> "failed"
         [] OTHER -> "degraded"

C6_VerdictIsOneThirdRule ==
    \A d \in detectorInput : \A r \in detectorResult :
        r.methodsRun = 3 =>
            LET ms == <<d.m1, d.m2, d.m3>>
                ran == {i \in 1..3 : ms[i] # "raise"}
                positive == {i \in 1..3 : ms[i] = "pos"}
            IN r.verdict <=> /\ Cardinality(ran) >= 1
                             /\ 3 * Cardinality(positive) >= Cardinality(ran)

\* C6, its case: the panel was open, one method was positive, one negative,
\* one raised, and the verdict was present.
C6_OnePositiveOfThree ==
    \E d \in detectorInput : \E r \in detectorResult :
        /\ r.methodsRun = 3
        /\ d.m1 = "raise" /\ d.m2 = "neg" /\ d.m3 = "pos"
        /\ r.verdict

\* C7 as stated: the tick in which the first stage's currentRetries reaches
\* maxRetries is the tick that sets currentStage to FAILED.
C7_LastFailingTickSetsFailed ==
    [][(/\ TickReturnsT
        /\ actionT = "initialization"
        /\ stageStatusT'["initialization"].currentRetries =
           stageStatusT["initialization"].maxRetries)
       => currentStageT' = FAILED]_vars

\* C7 as the code has it: every failing tick of the first stage, the one in
\* which currentRetries reaches maxRetries included, ends with currentStage
\* still designating that stage; currentStage leaves it for FAILED only in a
\* later tick, whose guard finds currentRetries = maxRetries, invokes nothing
\* and leaves the counter alone.
C7_FailedIsSetByTheNextTick ==
    [][/\ (TickReturnsT /\ actionT = "initialization" /\ lastEventT' # "ok")
          => /\ currentStageT' = "initial"
             /\ stageStatusT'["initialization"].currentRetries =
                stageStatusT["initialization"].currentRetries + 1
       /\ (currentStageT = "initial" /\ currentStageT' = FAILED)
          => /\ actionT = NULL /\ actionT' = NULL
             /\ lastEventT' = "exhausted"
             /\ stageStatusT["initialization"].currentRetries =
                stageStatusT["initialization"].maxRetries
             /\ stageStatusT' = stageStatusT]_vars

\* C7, its case: the tick in which initialization's counter reached its
\* maximum has ended, and currentStage still designates initialization.
C7_BudgetUsedUpStageKept ==
    /\ lastEventT = "fail"
    /\ stageStatusT["initialization"].currentRetries = MaxRetriesInitializationT
    /\ currentStageT = "initial"

\* C8: once the template's first stage has used up its budget without
\* succeeding, with the later stages never attempted, and a recovery tick has
\* run at FAILED, systemStatus is failed, then and after every later tick.
C8_ExhaustedFirstStageReportsFailed ==
    (/\ lastEventT = "remainsFailed"
     /\ currentStageT = FAILED
     /\ ~stageStatusT["initialization"].success
     /\ stageStatusT["initialization"].currentRetries >=
        stageStatusT["initialization"].maxRetries
     /\ stageStatusT["workflowExecution"].lastAttempt = 0
     /\ stageStatusT["healthCheck"].lastAttempt = 0)
    => systemStatusT = "failed"

\* C8, the run that breaks it: the recovery tick has declared the system
\* failed and the aggregator has overwritten that with degraded.
C8_DeadButDegraded ==
    /\ lastEventT = "remainsFailed"
    /\ currentStageT = FAILED
    /\ stageStatusT["initialization"].currentRetries = MaxRetriesInitializationT
    /\ stageStatusT["workflowExecution"].lastAttempt = 0
    /\ systemStatusT = "degraded"

\* The stages of the session orchestrator that recovery could still retry
retriableS ==
    {s \in DOMAIN stageStatusS :
        /\ ~stageStatusS[s].success
        /\ stageStatusS[s].currentRetries < stageStatusS[s].maxRetries}

\* C9: self-healing happens in the session orchestrator: a tick that starts
\* with currentStage = FAILED while retries remain finds the first unsuccessful
\* stage retriable and rewinds currentStage to its predecessor, so that the
\* stage is attempted again.
C9_RecoveryRewindsWhenRetriesRemain ==
    [][(/\ TickEndsS
        /\ currentStageS = FAILED
        /\ retriableS # {})
       => /\ lastEventS' = "rewound"
          /\ currentStageS' # FAILED]_vars

\* C9, what holds instead: no tick of the session orchestrator ever rewinds;
\* whenever currentStage is FAILED the first unsuccessful stage has used up
\* its budget.
C9_NeverRewinds ==
    /\ lastEventS # "rewound"
    /\ currentStageS = FAILED =>
          /\ findFailedStageS(stageStatusS) # NULL
          /\ stageStatusS[findFailedStageS(stageStatusS)].currentRetries >=
             stageStatusS[findFailedStageS(stageStatusS)].maxRetries

\* C9, the run that breaks it: a recovery tick has found retries remaining on
\* a later stage and has left currentStage at FAILED.
C9_RetriesRemainNoRewind ==
    /\ lastEventS = "remainsFailed"
    /\ currentStageS = FAILED
    /\ retriableS # {}

\* The classroom orchestrator is FAILED and every stage that has not succeeded
\* has used up its budget.
terminalC ==
    /\ currentStageC = FAILED
    /\ \A s \in DOMAIN stageStatusC :
          ~stageStatusC[s].success =>
              stageStatusC[s].currentRetries >= stageStatusC[s].maxRetries

\* C10: once the classroom orchestrator is FAILED with every unsuccessful
\* stage out of retries, currentStage remains FAILED and systemStatus remains
\* failed, whatever the browser connection does.
C10_TerminalFailureIsPermanent ==
    [][terminalC => /\ currentStageC' = FAILED
                    /\ systemStatusC' = "failed"]_vars

\* C10, the run that breaks it: joinClass used up its budget, the system was
\* FAILED, the browser connection dropped, and the next tick relaunched the
\* browser and carried on.
C10_RelaunchedAfterTerminalFailure ==
    /\ stageStatusC["joinClass"].currentRetries = MaxRetriesJoinClassC
    /\ ~stageStatusC["joinClass"].success
    /\ currentStageC = "browser_launched"
    /\ systemStatusC = "degraded"

\* C11: in the session orchestrator, after every attempt that failed, whether
\* the action returned false or threw, the attempted stage's lastError is
\* non-null.
C11_FailureRecordsLastError ==
    [][(/\ monitoringMutexS /\ ~monitoringMutexS'
        /\ lastEventS' \in {"fail", "throw"})
       => stageStatusS'[actionS].lastError # NULL]_vars

\* C11, the run that breaks it: login returned false once (the form inputs
\* were not found) and its record holds no error.
C11_LoginFailedWithoutError ==
    /\ lastEventS = "fail"
    /\ currentStageS = "opened_target_url"
    /\ ~stageStatusS["login"].success
    /\ stageStatusS["login"].currentRetries = 1
    /\ stageStatusS["login"].lastError = NULL

\* A tick of the session orchestrator at JOINED_CLASS whose health check
\* failed; performHealthCheck awaits nothing, so the tick is one step.
HealthCheckFailsS ==
    /\ ~monitoringMutexS /\ ~monitoringMutexS'
    /\ currentStageS = "joined_class"
    /\ stageStatusS'["healthCheck"].currentRetries =
       stageStatusS["healthCheck"].currentRetries + 1

\* The records of the stages other than s are what they were
othersKeptS(s) ==
    \A t \in DOMAIN stageStatusS \ {s} : stageStatusS'[t] = stageStatusS[t]

predecessorC ==
    [s \in DOMAIN InitStageStatusC |->
        CASE s = "launchBrowser" -> "initial"
          [] s = "userLogin" -> "browser_launched"
          [] s = "verifyUserLogin" -> "user_logged_in"
          [] s = "getTodaysClass" -> "login_verified"
          [] s = "getClassLinkFromLectures" -> "got_today_classes"
          [] s = "joinClass" -> "got_today_classes"]

\* f is the first stage in topology order whose success is false, or null
\* when every stage has succeeded
isFirstUnsuccessfulC(f, st) ==
    \/ f = NULL /\ \A s \in DOMAIN st : st[s].success
    \/ \E i \in 1..Len(StageNamesC) :
          /\ f = StageNamesC[i]
          /\ ~st[f].success
          /\ \A j \in 1..(i - 1) : st[StageNamesC[j]].success

\* C13: for every assignment of success flags findFailedStage returns the
\* first stage in topology order whose success is false (null when all
\* succeeded), and the rewind sets currentStage to that stage's fixed
\* predecessor without touching any stage record.
C13_RewindGoesToPredecessorOfFirstFailed ==
    [][/\ failedStageR' # failedStageR
          => /\ \E f \in failedStageR' :
                   failedStageR' = {f} /\ isFirstUnsuccessfulC(f, stageStatusR)
             /\ stageStatusR' = stageStatusR
             /\ currentStageR' = currentStageR
       /\ currentStageR' # currentStageR
          => /\ \E f \in failedStageR :
                   /\ isFirstUnsuccessfulC(f, stageStatusR)
                   /\ f # NULL
                   /\ currentStageR' = predecessorC[f]
             /\ stageStatusR' = stageStatusR]_vars

\* C13, its case: only joinClass is unsuccessful and the rewind went to
\* GOT_TODAY_CLASSES, the same stage it goes to for getClassLinkFromLectures.
C13_RewoundFromJoinClass ==
    /\ failedStageR = {"joinClass"}
    /\ currentStageR = "got_today_classes"
    /\ \A s \in DOMAIN stageStatusR : stageStatusR[s].success <=> s # "joinClass"

\* The check got as far as the class iframe: lectures are loaded, the page
\* exists, the iframe appeared and its frame was found.
reachedIframe(d) ==
    d.lectures /\ d.page /\ d.iframeWait = "ok" /\ d.iframe

\* C14: if the direct page-content check finds the username or "(You)", the
\* check returns present without looking up or clicking the users toggle and
\* without running any of the three panel methods.
C14_ContentHitShortCircuits ==
    \A d \in detectorInput : \A r \in detectorResult :
        (reachedIframe(d) /\ d.content = "pos")
            => /\ r.verdict
               /\ r.toggleLookups = 0
               /\ r.clicks = 0
               /\ r.methodsRun = 0

\* C14, its case: the content check was positive while the panel, had it been
\* opened, would have voted absent three times.
C14_ContentHitPanelWouldSayAbsent ==
    \E d \in detectorInput : \E r \in detectorResult :
        /\ reachedIframe(d) /\ d.content = "pos"
        /\ d.toggle1 /\ d.click = "ok" /\ d.grid = "found"
        /\ d.m1 = "neg" /\ d.m2 = "neg" /\ d.m3 = "neg"
        /\ r.verdict

\* C15: if the content check is not positive (negative, or it raised) and
\* neither users-toggle selector is found, the check returns present and
\* performs no click.
C15_NoToggleFailsOpen ==
    \A d \in detectorInput : \A r \in detectorResult :
        (reachedIframe(d) /\ d.content # "pos" /\ ~d.toggle1 /\ ~d.toggle2)
            => r.verdict /\ r.clicks = 0

\* C15, its case: the content check raised, both selectors were tried and
\* neither was found.
C15_ContentRaisedNoToggle ==
    \E d \in detectorInput : \E r \in detectorResult :
        /\ reachedIframe(d) /\ d.content = "raise"
        /\ ~d.toggle1 /\ ~d.toggle2
        /\ r.toggleLookups = 2
        /\ r.verdict

\* C16, first half: once stopMonitoring has cleared the interval no tick
\* starts: no timer fire acquires the monitoring mutex, and none is dropped.
C16_NoTickStartsAfterStop ==
    [][monitoringIntervalS = "cleared"
          => /\ nowS' = nowS
             /\ ~(~monitoringMutexS /\ monitoringMutexS')
             /\ ~(lastEventS' = "skipped" /\ lastEventS # "skipped")]_vars

\* C16, second half: a tick in flight when stopMonitoring returned runs to
\* completion and releases the monitoring mutex: the process does not end
\* with the mutex held.
C16_InFlightTickCompletes ==
    exitedS => ~monitoringMutexS /\ bodiesS = 0

\* C16, the run that breaks it: SIGINT arrives while a joinClass tick is
\* suspended; shutdown clears the interval and closes the browser, the
\* process exits, and the tick never reaches its finally block.
C16_ExitedWithTickInFlight ==
    /\ exitedS
    /\ monitoringIntervalS = "cleared"
    /\ monitoringMutexS
    /\ actionS = "joinClass"
    /\ bodiesS = 1

\* C17: in the template orchestrator the monitoring mutex is released at the
\* end of every tick that acquired it, whether the stage action succeeded,
\* failed or raised: in every state where no tick body is in flight the mutex
\* is unlocked.
C17_MutexFreeWhenNoTickInFlight ==
    bodiesT = 0 => ~monitoringMutexT

\* C17, its case: a tick acquired the mutex, its stage action raised, and the
\* tick has ended with the mutex released.
C17_ReleasedAfterRaise ==
    /\ lastEventT = "throw"
    /\ bodiesT = 0
    /\ ~monitoringMutexT
    /\ stageStatusT["workflowExecution"].lastError # NULL

\* The step that ends a tick of the template orchestrator, suspended or not
TickEndsT ==
    /\ ~monitoringMutexT'
    /\ lastEventT' # "skipped"
    /\ \/ monitoringMutexT
       \/ <<currentStageT, stageStatusT, systemStatusT, nowT, lastEventT>>' #
          <<currentStageT, stageStatusT, systemStatusT, nowT, lastEventT>>

\* C18: systemStatus is failed only when some stage has exhausted its budget:
\* at the end of any tick in which every stage still has
\* currentRetries < maxRetries, systemStatus is not failed.
C18_FailedOnlyWhenBudgetExhausted ==
    [][(/\ TickEndsT
        /\ \A s \in DOMAIN stageStatusT :
              stageStatusT'[s].currentRetries < stageStatusT'[s].maxRetries)
       => systemStatusT' # "failed"]_vars

\* C18, the run that breaks it: the very first tick's initialization failed
\* once, no stage has succeeded yet, and the status is failed with two of the
\* three attempts still unused.
C18_FailedAfterFirstFailure ==
    /\ lastEventT = "fail"
    /\ currentStageT = "initial"
    /\ systemStatusT = "failed"
    /\ stageStatusT["initialization"].currentRetries = 1
    /\ stageStatusT["workflowExecution"].currentRetries = 0
    /\ stageStatusT["healthCheck"].currentRetries = 0

\* C19: in the session orchestrator healthy means all checks passing: at the
\* end of a tick in which the healthCheck attempt failed, systemStatus is not
\* healthy.
C19_FailedHealthCheckIsNotHealthy ==
    [][HealthCheckFailsS => systemStatusS' # "healthy"]_vars

\* C19, the run that breaks it: the class was joined, the browser went away,
\* the health check failed and the status reads healthy.
C19_HealthyWithDeadBrowser ==
    /\ lastEventS = "fail"
    /\ currentStageS = "joined_class"
    /\ browserS = "disconnected"
    /\ ~stageStatusS["healthCheck"].success
    /\ stageStatusS["healthCheck"].currentRetries >= 1
    /\ systemStatusS = "healthy"

\* C20: in the template orchestrator, on a run where every action succeeds,
\* healthCheck is attempted and marked successful before currentStage becomes
\* WORKFLOW_COMPLETED.
C20_HealthCheckPrecedesCompleted ==
    (/\ currentStageT = "workflow_completed"
     /\ \A s \in DOMAIN stageStatusT : stageStatusT[s].currentRetries = 0)
    => /\ stageStatusT["healthCheck"].lastAttempt # 0
       /\ stageStatusT["healthCheck"].success

\* C20, the run that breaks it: initialization and the workflow succeeded at
\* their first attempt, the workflow is completed, and healthCheck was never
\* attempted.
C20_CompletedWithoutHealthCheck ==
    /\ currentStageT = "workflow_completed"
    /\ \A s \in DOMAIN stageStatusT : stageStatusT[s].currentRetries = 0
    /\ stageStatusT["initialization"].success
    /\ stageStatusT["workflowExecution"].success
    /\ stageStatusT["healthCheck"].lastAttempt = 0
    /\ ~stageStatusT["healthCheck"].success
    /\ executionCountT = 1

\* Every stage action attempted so far has succeeded
allSucceededS ==
    \A s \in DOMAIN stageStatusS : stageStatusS[s].currentRetries = 0

\* C21: in the session orchestrator, starting from INITIAL and under fair
\* firing of ticks, if every stage action succeeds whenever it is attempted
\* (and the timer is not stopped) then currentStage eventually becomes
\* JOINED_CLASS with systemStatus healthy and both stay so, and every tick
\* that starts at JOINED_CLASS makes a healthCheck attempt and no other.
C21_AllSuccessReachesJoinedClass ==
    /\ [](allSucceededS /\ monitoringIntervalS # "cleared")
          => <>[](currentStageS = "joined_class" /\ systemStatusS = "healthy")
    /\ [][(/\ currentStageS = "joined_class"
            /\ stageStatusS' # stageStatusS
            /\ allSucceededS')
             => /\ stageStatusS'["healthCheck"].lastAttempt = nowS'
                /\ stageStatusS'["healthCheck"].success
                /\ othersKeptS("healthCheck")]_vars

\* C21, its case: four ticks took the workflow from INITIAL to JOINED_CLASS
\* without a failure, a health check has passed, and the status is healthy.
C21_JoinedAndHealthChecked ==
    /\ allSucceededS
    /\ currentStageS = "joined_class"
    /\ systemStatusS = "healthy"
    /\ \A s \in DOMAIN stageStatusS : stageStatusS[s].success
    /\ monitoringIntervalS = "set"

\* A whole tick of the session orchestrator taken in one step: the timer is
\* set, the mutex is free, monitorExecution acquires it, awaits no driver call
\* and releases it, and updateSystemStatus has run.
WholeTickS ==
    /\ monitoringIntervalS = "set" /\ monitoringIntervalS' = "set"
    /\ ~monitoringMutexS /\ ~monitoringMutexS'
    /\ lastEventS' \in {"ok", "fail", "exhausted", "rewound", "remainsFailed"}
    /\ systemStatusS' = updateSystemStatusS(currentStageS', stageStatusS')

\* C22: every change to currentStage or to a stage record after construction
\* happens while the monitoring mutex is held by a tick: no HTTP handler,
\* timer start or stop, or shutdown path writes them.
C22_WritesOnlyUnderMonitoringMutex ==
    [][(currentStageS' # currentStageS \/ stageStatusS' # stageStatusS)
          => /\ monitoringMutexS \/ monitoringMutexS' \/ WholeTickS
             /\ monitoringIntervalS' = monitoringIntervalS
             /\ exitedS' = exitedS]_vars

\* C22, its case: a tick has advanced the workflow, and the timer has since
\* been stopped by shutdown, which left stage and records as the tick wrote
\* them.
C22_StoppedAfterProgress ==
    /\ monitoringIntervalS = "cleared"
    /\ currentStageS = "opened_target_url"
    /\ stageStatusS["openTarget"].success
    /\ ~monitoringMutexS

\* A timer fire of the classroom orchestrator that acquires the mutex
TickStartsC ==
    /\ monitoringIntervalC = "set" /\ monitoringIntervalC' = "set"
    /\ ~monitoringMutexC
    /\ browserC' = browserC
    /\ varsC' # varsC

\* C23: in the classroom orchestrator every tick that acquires the mutex with
\* currentStage a named (non-FAILED) stage makes exactly one attemptStage
\* call: it is suspended in a stage action, or attemptStage's budget guard
\* ended it.
C23_OneAttemptPerNamedStageTick ==
    [][(TickStartsC /\ currentStageC # FAILED)
          => \/ monitoringMutexC' /\ actionC' \in DOMAIN stageStatusC
             \/ ~monitoringMutexC' /\ lastEventC' = "exhausted"]_vars

\* C23, the run that breaks it: the browser was relaunched after a lost
\* connection, currentStage is BROWSER_LAUNCHED, userLogin.success is still
\* true from before, and the tick has called nothing.
C23_IdleTickAtBrowserLaunched ==
    /\ lastEventC = "idle"
    /\ currentStageC = "browser_launched"
    /\ stageStatusC["userLogin"].success
    /\ ~monitoringMutexC
    /\ actionC = NULL

\* C24: if joinClassroom is entered while the workflow mutex is held by a join
\* already in flight, it returns success at once without incrementing
\* executionCount or changing currentStage, and the enclosing attemptStage
\* marks joinClass succeeded and consumes no retry.
C24_JoinInFlightCountsAsSuccess ==
    [][(/\ currentStageS = "logged_in"
        /\ workflowMutexS
        /\ ~monitoringMutexS
        /\ monitoringIntervalS = "set"
        /\ ~budgetExhausted(stageStatusS["joinClass"])
        /\ <<stageStatusS, lastEventS, monitoringMutexS>>' #
           <<stageStatusS, lastEventS, monitoringMutexS>>)
       => /\ ~monitoringMutexS'
          /\ workflowMutexS'
          /\ executionCountS' = executionCountS
          /\ currentStageS' = currentStageS
          /\ stageStatusS'["joinClass"].success
          /\ stageStatusS'["joinClass"].lastError = NULL
          /\ stageStatusS'["joinClass"].currentRetries =
             stageStatusS["joinClass"].currentRetries
          /\ othersKeptS("joinClass")]_vars

\* C24, its case: joinClass had failed twice, a tick entered joinClassroom
\* with the workflow mutex held, and joinClass now reads succeeded with its two
\* retries and the execution count as they were.
C24_SucceededWithoutJoining ==
    /\ currentStageS = "logged_in"
    /\ workflowMutexS
    /\ ~monitoringMutexS
    /\ stageStatusS["joinClass"].success
    /\ stageStatusS["joinClass"].currentRetries = 2
    /\ executionCountS = 0

\* C30: the workflow mutex is unlocked whenever joinClassroom (session
\* orchestrator) or executeWorkflow (template orchestrator) is entered, since
\* both are only called from a tick holding the monitoring mutex: the mutex is
\* held only while the one tick that took it is suspended in that action, and
\* no tick ends through the "already running, return true" branch.
C30_WorkflowMutexFreeAtEntry ==
    /\ workflowMutexS => (monitoringMutexS /\ actionS = "joinClass" /\ bodiesS = 1)
    /\ workflowMutexT => (monitoringMutexT /\ actionT = "workflowExecution"
                          /\ bodiesT = 1)
    /\ bodiesS <= 1 /\ bodiesT <= 1

\* C30, its case (session): a tick is suspended in joinClassroom holding both
\* mutexes, and a timer fire has just been dropped at the monitoring gate.
C30_JoinInFlightTickDropped ==
    /\ workflowMutexS /\ monitoringMutexS
    /\ actionS = "joinClass"
    /\ lastEventS = "skipped"

\* C25: if an unexpected error escapes the stage dispatch inside a tick, the
\* tick does not reject (it ends with the mutex released) and systemStatus is
\* degraded at the end of that tick.
C25_EscapedErrorLeavesDegraded ==
    [][(lastEventT' = "escaped" /\ ~monitoringMutexT
        /\ monitoringIntervalT' = monitoringIntervalT)
          => /\ ~monitoringMutexT'
             /\ systemStatusT' = "degraded"]_vars

\* C25, the run that breaks it: the first tick's dispatch raised before any
\* stage had succeeded; the tick ended, the mutex is free, and the status the
\* catch block set has been recomputed to failed.
C25_EscapedButFailed ==
    /\ lastEventT = "escaped"
    /\ currentStageT = "initial"
    /\ ~monitoringMutexT
    /\ bodiesT = 0
    /\ systemStatusT = "failed"

\* C26: in the session orchestrator joinClass.currentRetries never exceeds
\* joinClass.maxRetries, although performHealthCheck increments it outside
\* attemptStage's budget guard.
C26_JoinRetriesWithinBudget ==
    stageStatusS["joinClass"].currentRetries <= stageStatusS["joinClass"].maxRetries

\* C26, its case: four failed join attempts, a join, and then a health check
\* that found the page off the class view took joinClass's counter to its
\* maximum.
C26_HealthCheckUsedLastRetry ==
    /\ stageStatusS["joinClass"].currentRetries = MaxRetriesJoinClassS
    /\ stageStatusS["joinClass"].lastError = "Not on class page"
    /\ stageStatusS["healthCheck"].currentRetries >= 1
    /\ currentStageS = "logged_in"

\* C27: in the presence detector a panel method that raises is excluded from
\* both counters: it increments neither successfulMethods nor the total used
\* as the denominator of the success rate.
C27_RaisingMethodIsNotCounted ==
    \A d \in detectorInput : \A r \in detectorResult :
        r.methodsRun = 3 =>
            LET ms == <<d.m1, d.m2, d.m3>> IN
            /\ r.successfulMethods = Cardinality({i \in 1..3 : ms[i] = "pos"})
            /\ r.totalMethods = Cardinality({i \in 1..3 : ms[i] # "raise"})

\* C27, the run that breaks it: method 1 raised, method 2 was positive,
\* method 3 negative, and the denominator is 3.
C27_RaiseCountedInTotal ==
    \E d \in detectorInput : \E r \in detectorResult :
        /\ r.methodsRun = 3
        /\ d.m1 = "raise" /\ d.m2 = "pos" /\ d.m3 = "neg"
        /\ r.successfulMethods = 1
        /\ r.totalMethods = 3

\* The other answer of the click that closes the panel
otherClose(c) == IF c = "ok" THEN "raise" ELSE "ok"

\* C28: in the presence detector a failure of the final click that closes the
\* users panel does not change the verdict: for the same method outcomes the
\* returned value is the same whether the cleanup click succeeds or raises.
C28_CleanupFailureKeepsVerdict ==
    \A d \in detectorInput : \A r \in detectorResult :
        r.verdict =
            checkIfClassIsStillActive([d EXCEPT !.close = otherClose(@)]).verdict

\* C28, its case: the panel was opened, one method was positive, the closing
\* click raised, and the verdict is present.
C28_CloseRaisedVerdictPresent ==
    \E d \in detectorInput : \E r \in detectorResult :
        /\ r.methodsRun = 3
        /\ d.close = "raise"
        /\ r.clicks = 1
        /\ d.m1 = "pos" /\ d.m2 = "neg" /\ d.m3 = "neg"
        /\ r.verdict

\* C29: no operation decreases or resets a stage's currentRetries, not even a
\* successful attempt; every failed attempt adds one to it and it stays within
\* maxRetries, so a stage's failed attempts over the whole run number at most
\* maxRetries, also when successes lie between them (template and session
\* orchestrators).
C29_RetriesNeverReset ==
    [][/\ \A s \in DOMAIN stageStatusT :
             /\ stageStatusT'[s].currentRetries >= stageStatusT[s].currentRetries
             /\ stageStatusT'[s].currentRetries <= stageStatusT'[s].maxRetries
       /\ \A s \in DOMAIN stageStatusS :
             /\ stageStatusS'[s].currentRetries >= stageStatusS[s].currentRetries
             /\ stageStatusS'[s].currentRetries <= stageStatusS'[s].maxRetries
       /\ (TickReturnsT /\ lastEventT' \in {"fail", "throw"})
             => stageStatusT'[actionT].currentRetries =
                stageStatusT[actionT].currentRetries + 1
       /\ (monitoringMutexS /\ ~monitoringMutexS' /\ lastEventS' \in {"fail", "throw"})
             => stageStatusS'[actionS].currentRetries =
                stageStatusS[actionS].currentRetries + 1]_vars

\* C29, its case: joinClass failed twice and then succeeded; the class is
\* joined and the counter still reads 2.
C29_CounterKeptAfterSuccess ==
    /\ currentStageS = "joined_class"
    /\ lastEventS = "ok"
    /\ stageStatusS["joinClass"].success
    /\ stageStatusS["joinClass"].currentRetries = 2
    /\ stageStatusS["joinClass"].lastError = NULL

\* C31: in the classroom orchestrator every tick that acquires the monitoring
\* mutex eventually finishes and releases it, provided each driver call
\* returns or throws: a userLogin attempt ends even when the page URL never
\* leaves the login page.
C31_TickEventuallyReleases == monitoringMutexC ~> ~monitoringMutexC

\* C31, the run that breaks it: userLogin has submitted the form and polls the
\* page URL, the tick holds the mutex, and later timer fires are dropped.
C31_LoginPollsWhileTicksDropped ==
    /\ loginWaitC
    /\ actionC = "userLogin"
    /\ monitoringMutexC
    /\ lastEventC = "skipped"

\* C32: in the classroom orchestrator, once a lost connection was detected at
\* a stage past login and launchBrowser has succeeded again (the workflow is at
\* BROWSER_LAUNCHED with userLogin still marked successful), some later tick
\* attempts userLogin: the workflow does not stay at BROWSER_LAUNCHED.
C32_ReloginAfterRelaunch ==
    (/\ currentStageC = "browser_launched"
     /\ stageStatusC["userLogin"].success
     /\ stageStatusC["launchBrowser"].success
     /\ ~monitoringMutexC)
    ~> (actionC = "userLogin")

\* C32, the run that breaks it: the browser was relaunched after the login had
\* been verified, and a tick at BROWSER_LAUNCHED has ended without attempting
\* anything.
C32_RelaunchedAndIdle ==
    /\ currentStageC = "browser_launched"
    /\ browserC = "connected"
    /\ stageStatusC["launchBrowser"].success
    /\ stageStatusC["userLogin"].success
    /\ stageStatusC["verifyUserLogin"].success
    /\ lastEventC = "idle"
    /\ ~monitoringMutexC

\* C33: an Automation instance constructed with a required configuration
\* value missing leaves the constructor with currentStage = FAILED and
\* systemStatus = failed (the template and the session orchestrator), so its
\* first tick does not attempt the first stage.
C33_MissingConfigLeavesFailed ==
    /\ (missingVarsT /\ lastEventT = "constructed" /\ ~monitoringMutexT)
          => currentStageT = FAILED /\ systemStatusT = "failed"
    /\ (missingVarsS /\ lastEventS = "constructed" /\ ~monitoringMutexS)
          => currentStageS = FAILED /\ systemStatusS = "failed"
    /\ missingVarsT => actionT # "initialization"
    /\ missingVarsS => actionS # "initialization"

\* C33, the run that breaks it: the template was constructed without a
\* required value and its first tick is inside the initialization stage.
C33_InitializationAttemptedWithoutConfig ==
    /\ missingVarsT
    /\ actionT = "initialization"
    /\ lastEventT = "constructed"
    /\ stageStatusT["initialization"].currentRetries = 0

\* C34: in the presence detector a failure before the classroom iframe is
\* acquired (no lectures, no page, the iframe wait raises, the iframe is not
\* found) yields absent, and an error raised after the iframe is acquired,
\* outside the individually guarded methods (the click that opens the panel,
\* the wait for the participants grid), yields present.
C34_ErrorsBeforeIframeAbsentAfterPresent ==
    \A d \in detectorInput : \A r \in detectorResult :
        /\ ~reachedIframe(d) => ~r.verdict
        /\ (/\ reachedIframe(d)
            /\ d.content # "pos"
            /\ d.toggle1 \/ d.toggle2
            /\ d.click = "raise" \/ d.grid = "raise")
           => r.verdict /\ r.methodsRun = 0

\* C34, its case: the iframe was acquired, the content check found nothing,
\* the panel opened and the wait for the grid raised; the check said present.
C34_GridWaitRaisedVerdictPresent ==
    \E d \in detectorInput : \E r \in detectorResult :
        /\ reachedIframe(d)
        /\ d.content = "neg"
        /\ d.toggle1
        /\ d.click = "ok"
        /\ d.grid = "raise"
        /\ r.verdict
        /\ r.clicks = 1

\* C35: in the classroom orchestrator, when the presence verdict of a
\* CLASS_JOINED tick is absent, the tick sets currentStage to GOT_TODAY_CLASSES
\* and joinClass.success to false and changes no stage's currentRetries (nor
\* any other success flag); when the verdict is present, currentStage and all
\* success flags (and all retry counters) are unchanged.
C35_PresenceVerdictFrame ==
    [][(actionC = "checkIfClassIsStillActive" /\ actionC' = NULL)
        => /\ currentStageC = "class_joined"
           /\ lastEventC' \in {"absent", "present"}
           /\ \A s \in DOMAIN stageStatusC :
                 stageStatusC'[s].currentRetries = stageStatusC[s].currentRetries
           /\ lastEventC' = "absent"
                 => /\ currentStageC' = "got_today_classes"
                    /\ ~stageStatusC'["joinClass"].success
                    /\ \A s \in DOMAIN stageStatusC \ {"joinClass"} :
                          stageStatusC'[s].success = stageStatusC[s].success
           /\ lastEventC' = "present"
                 => /\ currentStageC' = currentStageC
                    /\ \A s \in DOMAIN stageStatusC :
                          stageStatusC'[s].success = stageStatusC[s].success]_vars

\* C35, its case: a presence check has answered absent after a join that
\* needed no retry; the workflow is back at GOT_TODAY_CLASSES with joinClass
\* unsuccessful and its counter still zero.
C35_AbsentRewoundWithoutRetry ==
    /\ lastEventC = "absent"
    /\ currentStageC = "got_today_classes"
    /\ ~stageStatusC["joinClass"].success
    /\ stageStatusC["joinClass"].currentRetries = 0
    /\ stageStatusC["getTodaysClass"].success
    /\ ~monitoringMutexC

\* The step that answers a login whose credentials are valid
ValidLoginAnsweredA ==
    /\ lastResponseA' # lastResponseA
    /\ lastResponseA'.op = "login"
    /\ lastResponseA'.status \in {200, 409}

\* C36: the session store holds at most one session per normalized username;
\* a login with valid credentials from a client id other than the stored
\* session's is answered 409 and leaves the store unchanged; one from the same
\* client id (or with no session stored) replaces the stored session.
C36_OneSessionPerUserAndClient ==
    [][/\ \A e, f \in activeSessionsA' :
             normalizeUsername(e.key) = normalizeUsername(f.key) => e = f
       /\ ValidLoginAnsweredA =>
             LET c == lastResponseA'.clientId
                 u == lastResponseA'.username
                 stored == {e \in activeSessionsA : normalizeUsername(e.key) = u}
             IN IF \E e \in stored : e.session.clientId # c
                THEN /\ lastResponseA'.status = 409
                     /\ activeSessionsA' = activeSessionsA
                     /\ issuedA' = issuedA
                ELSE /\ lastResponseA'.status = 200
                     /\ \E e \in activeSessionsA' :
                           /\ e.key = u
                           /\ e.session.clientId = c
                           /\ e.session.sessionId = lastResponseA'.sessionId
                           /\ \A f \in stored : f.session.sessionId # e.session.sessionId
                     /\ Cardinality(activeSessionsA') = 1]_vars

\* C36, its case: client c2 has just been refused with 409 while the session
\* of client c1 is stored and has not expired.
C36_SecondClientRefused ==
    /\ lastResponseA.op = "login"
    /\ lastResponseA.status = 409
    /\ lastResponseA.clientId = "c2"
    /\ \E e \in activeSessionsA :
          e.session.clientId = "c1" /\ nowA <= e.session.expiresAt

\* C37: an expired session does not block other clients: once the stored
\* session's expiresAt has passed, a login with valid credentials from another
\* client id succeeds.
C37_ExpiredSessionDoesNotBlock ==
    [][(/\ ValidLoginAnsweredA
        /\ \E e \in activeSessionsA :
              /\ e.key = lastResponseA'.username
              /\ e.session.clientId # lastResponseA'.clientId
              /\ nowA > e.session.expiresAt)
        => lastResponseA'.status = 200]_vars

\* C37, the run that breaks it: the session of client c1 expired and is still
\* stored, and client c2 has just been refused with 409.
C37_RefusedByExpiredSession ==
    /\ lastResponseA.op = "login"
    /\ lastResponseA.status = 409
    /\ lastResponseA.clientId = "c2"
    /\ \E e \in activeSessionsA :
          e.session.clientId = "c1" /\ nowA > e.session.expiresAt

\* The step that answers a request to a route behind authenticate
ProtectedAnsweredA ==
    /\ lastResponseA' # lastResponseA
    /\ lastResponseA'.op \in {"logout", "session", "classroom"}

\* The stored session a token's claims name, if any
matchingSessionA(store, sub, clientId, sessionId) ==
    {e \in store : /\ e.key = sub
                   /\ e.session.sessionId = sessionId
                   /\ e.session.clientId = clientId}

\* C38: authenticate accepts a token only if its sessionId and clientId equal
\* those of the session currently stored for its user: once that user has
\* logged out, or has logged in again, every token issued before is answered
\* 401 on every route; and a request answered 401 never alters the stored
\* session of a user whose session has not expired.
C38_OnlyCurrentSessionTokenAccepted ==
    /\ [](\A t \in issuedA : \A e \in activeSessionsA :
             (e.key = t.sub /\ e.session.sessionId # t.sessionId)
                => authenticate(activeSessionsA, t, nowA).status = 401)
    /\ [](\A t \in issuedA :
             MapGet(activeSessionsA, t.sub) = {}
                => authenticate(activeSessionsA, t, nowA).status = 401)
    /\ [][ProtectedAnsweredA =>
             /\ lastResponseA'.status # 401
                   => matchingSessionA(activeSessionsA, lastResponseA'.username,
                          lastResponseA'.clientId, lastResponseA'.sessionId) # {}
             /\ matchingSessionA(activeSessionsA, lastResponseA'.username,
                    lastResponseA'.clientId, lastResponseA'.sessionId) = {}
                   => lastResponseA'.status = 401
             /\ lastResponseA'.status = 401
                   => \A e \in activeSessionsA :
                         nowA <= e.session.expiresAt => e \in activeSessionsA']_vars

\* C38, its case: the user has logged in a second time from the same client
\* and the token of the first session, not yet lapsed, has been answered 401;
\* the second session is still stored.
C38_OldTokenRefusedAfterRelogin ==
    /\ lastResponseA.op = "classroom"
    /\ lastResponseA.status = 401
    /\ lastResponseA.sessionId = 1
    /\ \E t \in issuedA : t.sessionId = 1 /\ nowA < t.exp
    /\ \E e \in activeSessionsA :
          /\ e.session.sessionId = 2
          /\ e.session.clientId = lastResponseA.clientId
          /\ nowA <= e.session.expiresAt

\* C39: in the mock classroom server, after any sequence of connections, JOIN,
\* UPDATE and SYNC messages and closes, activeUsers holds exactly the user ids
\* announced by a connection that is still open: no entry outlives the
\* connection that announced it and none is removed while a connection that
\* announced it is open.
C39_ActiveUsersAreOpenAnnouncements ==
    activeUsersW = UNION {connsW[c].announced : c \in openW(connsW)}

\* C39, the run that breaks it: both connections joined as u1 (two tabs, or a
\* reconnect before the old socket closed), the first one closed, and u1 is
\* gone from activeUsers while the second is still open.
C39_RemovedWhileSecondConnectionOpen ==
    /\ connsW["k1"].state = "closed"
    /\ connsW["k2"].state = "open"
    /\ connsW["k1"].userId = "u1"
    /\ connsW["k2"].announced = {"u1"}
    /\ "u1" \notin activeUsersW
    /\ \E m \in sentW : m.type = "USER_LEFT" /\ m.id = "u1" /\ m.to = "k2"

\* C40: in the classroom client, once JOIN_CONFIRMED has been processed the
\* client's own user stays in its user list until a USER_LEFT for its id
\* arrives, for every interleaving of INITIAL_STATE, JOIN_CONFIRMED,
\* USER_JOINED and USER_UPDATE messages with the debounced flush, and the list
\* never holds two entries with the same id.
C40_OwnUserStaysListed ==
    /\ (hasJoinedU /\ ~leftSeenU) => myUserId \in idsOf(usersU)
    /\ \A i, j \in 1..Len(usersU) : usersU[i].id = usersU[j].id => i = j

\* C40, the run that breaks it: the INITIAL_STATE sent on connect was queued
\* as a REPLACE, JOIN_CONFIRMED added the client's own user, and the flush
\* then replaced the list with the one from before the join.
C40_OwnUserReplacedAway ==
    /\ hasJoinedU
    /\ ~leftSeenU
    /\ lastEventU = "flush"
    /\ updateQueueU = <<>>
    /\ myUserId \notin idsOf(usersU)
    /\ idsOf(usersU) = {"o1"}

====
